---- MODULE Spec2Model ----
(***************************************************************************)
(* Verification model of the weatherstation trend / prediction engine.     *)
(*                                                                         *)
(* Units.  Python floats are modelled by scaled integers:                  *)
(*   temperature_f, humidity    whole degrees F / whole percent            *)
(*   pressure_hpa               tenths of a hectopascal (9900 = 990.0 hPa) *)
(*   timestamps                 whole minutes                              *)
(*   feels-like results         tenths of a degree F (round(x, 1))         *)
(*   dew points, spreads        thousandths of a degree F                  *)
(* A Python dict is a function whose DOMAIN is the set of its keys; the    *)
(* empty dict is the function with empty domain.                           *)
(***************************************************************************)
EXTENDS Integers, Sequences, FiniteSets, TLC

VARIABLES
    influx,        \* readings stored in the InfluxDB bucket, ascending by time
    now,           \* wall clock: [minute, hour, month]
    current_data,  \* WeatherDashboard.current_data
    all_readings,  \* WeatherStation.all_readings
    args,          \* arguments of the call under analysis
    result,        \* what the last call returned (or raised)
    threads,       \* per thread: position and locals of its get_current_reading
    events,        \* the in-memory list of tagged events
    events_file,   \* the tagged events as last persisted
    emitted,       \* the messages emitted to the connected clients, in order
    weather_cache  \* WeatherAPIService: cached_weather and the age of last_fetch

vars == << influx, now, current_data, all_readings, args, result, threads,
           events, events_file, emitted, weather_cache >>

\* the variables of the event tagging and of the official-weather cache
services == << events, events_file, emitted, weather_cache >>

\* no tagged events, nothing emitted, nothing cached
ServicesIdle ==
    /\ events = << >>
    /\ events_file = << >>
    /\ emitted = << >>
    /\ weather_cache = [cached |-> FALSE, data |-> 0, age |-> 0, calls |-> 0]

(***************************************************************************)
(* Bounds of the model.                                                    *)
(***************************************************************************)
MaxTempF == 112
MaxWind == 5

(***************************************************************************)
(* Python helpers.                                                         *)
(***************************************************************************)
EmptyDict == [k \in {} |-> 0]

Get(d, k, default) == IF k \in DOMAIN d THEN d[k] ELSE default

Abs(x) == IF x < 0 THEN -x ELSE x

\* floor(x * n / d) without leaving 32-bit integers
MulDiv(x, n, d) == (x \div d) * n + ((x % d) * n) \div d

\* round(v, 1) of a value given in millionths; the result is in tenths
Round1(x6) == (x6 + 50000) \div 100000

ISqrt(x) == CHOOSE r \in 0..10000 : r * r <= x /\ x < (r + 1) * (r + 1)

NotCalled == [op |-> "none"]

(***************************************************************************)
(* math.exp(17.27*temp_c/(237.7+temp_c)) for temp_c = (temp_f-32)*5/9,     *)
(* temp_f = 0..131, in ten-millionths.                                     *)
(***************************************************************************)
MagnusExp ==
  << 2475732, 2594958, 2719283, 2848896, 2983991, 3124771, 3271442, 3424217,
     3583317, 3748968, 3921403, 4100863, 4287595, 4481853, 4683899, 4894004,
     5112444, 5339504, 5575477, 5820665, 6075379, 6339935, 6614662, 6899897,
     7195984, 7503278, 7822143, 8152955, 8496096, 8851961, 9220955, 9603493,
     10000000, 10410914, 10836682, 11277764, 11734630, 12207765, 12697662, 13204829,
     13729786, 14273064, 14835210, 15416781, 16018351, 16640504, 17283840, 17948974,
     18636532, 19347158, 20081509, 20840259, 21624096, 22433723, 23269860, 24133243,
     25024625, 25944775, 26894479, 27874539, 28885778, 29929033, 31005162, 32115038,
     33259557, 34439630, 35656189, 36910185, 38202589, 39534393, 40906606, 42320262,
     43776413, 45276133, 46820518, 48410685, 50047773, 51732944, 53467384, 55252299,
     57088920, 58978503, 60922325, 62921690, 64977925, 67092383, 69266440, 71501500,
     73798991, 76160370, 78587117, 81080741, 83642778, 86274790, 88978368, 91755131,
     94606728, 97534832, 100541152, 103627420, 106795401, 110046890, 113383713, 116807725,
     120320813, 123924895, 127621922, 131413877, 135302773, 139290660, 143379617, 147571760,
     151869236, 156274227, 160788951, 165415660, 170156640, 175014215, 179990742, 185088616,
     190310268, 195658168, 201134820, 206742768, 212484592, 218362912, 224380387, 230539713,
     236843627, 243294904, 249896362, 256650857 >>

(***************************************************************************)
(* wind_mph ** 0.16 for wind_mph = 1..20, in hundred-thousandths.          *)
(***************************************************************************)
WindPow ==
  << 100000, 111729, 119217, 124833, 129370, 133200, 136526, 139474, 142128, 144544,
     146765, 148823, 150741, 152539, 154232, 155833, 157352, 158797, 160177, 161497 >>

(***************************************************************************)
(* Feels-like calculator of the dashboard (src/src/dashboard_masterbox.py) *)
(***************************************************************************)

\* Rothfusz with the temp_f*humidity^2 term (8.5282e-4) left out
Rothfusz_NoTH2(temp_f, humidity) ==
    LET A6 == -42379000 + 2049015 * temp_f - ((683783 * temp_f) \div 100) * temp_f
        B7 == 101433313 - 2247554 * temp_f + ((122874 * temp_f) \div 10) * temp_f
        C8 == -5481717 - 199 * temp_f * temp_f
    IN  A6 + ((B7 * humidity) \div 10) + ((C8 * humidity) \div 100) * humidity

\* Rothfusz regression in millionths of a degree, grouped by powers of
\* humidity: hi = A(T) + B(T)*H + C(T)*H^2.
Rothfusz(temp_f, humidity) ==
    LET A6 == -42379000 + 2049015 * temp_f - ((683783 * temp_f) \div 100) * temp_f
        B7 == 101433313 - 2247554 * temp_f + ((122874 * temp_f) \div 10) * temp_f
        C8 == -5481717 + 85282 * temp_f - 199 * temp_f * temp_f
    IN  A6 + ((B7 * humidity) \div 10) + ((C8 * humidity) \div 100) * humidity

heat_index(temp_f, humidity) ==
    IF temp_f < 80 \/ humidity < 40
    THEN temp_f * 10
    ELSE LET hi == Rothfusz(temp_f, humidity)
             adj == IF humidity < 13 /\ 80 <= temp_f /\ temp_f <= 112
                    THEN hi - (13 - humidity) * 25
                              * ISqrt(((17 - Abs(temp_f - 95)) * 100000000) \div 17)
                    ELSE IF humidity > 85 /\ 80 <= temp_f /\ temp_f <= 87
                    THEN hi + (humidity - 85) * (87 - temp_f) * 20000
                    ELSE hi
         IN  Round1(adj)

wind_chill(temp_f, wind_mph) ==
    IF temp_f > 50 \/ wind_mph < 3
    THEN temp_f * 10
    ELSE LET p5 == WindPow[wind_mph]
             wc5 == 3574000 + 62150 * temp_f - ((3575 * p5) \div 100)
                    + ((4275 * p5) \div 10000) * temp_f
         IN  Round1(wc5 * 10)

\* The caller passes temp_c = (temp_f - 32) * 5/9 and wind_ms = wind_mph *
\* 0.44704; both are carried here by their Fahrenheit / mph origin, so that
\* at*9/5 + 32 = temp_f + 1.8 * (0.33*e - 0.7*wind_ms - 4.0), in ten-millionths
\* temp_f*10^7 + 0.594*e7 - 5632704*wind_mph - 72000000.
apparent_temperature(temp_f, humidity, wind_mph) ==
    LET sat7 == MulDiv(MagnusExp[temp_f + 1], 6105, 1000)
        e7 == MulDiv(sat7, humidity, 100)
        d7 == MulDiv(e7, 594, 1000) - 5632704 * wind_mph - 72000000
    IN  Round1(temp_f * 1000000 + (d7 \div 10))

\* calculate_feels_like with both regime boundaries made exclusive
calculate_feels_like_Exclusive(temp_f, humidity, wind_mph) ==
    IF temp_f > 80 /\ humidity > 40
    THEN [callee |-> "heat_index", value |-> heat_index(temp_f, humidity)]
    ELSE IF temp_f < 50 /\ wind_mph > 3
    THEN [callee |-> "wind_chill", value |-> wind_chill(temp_f, wind_mph)]
    ELSE [callee |-> "apparent_temperature",
          value |-> apparent_temperature(temp_f, humidity, wind_mph)]

calculate_feels_like(temp_f, humidity, wind_mph) ==
    IF temp_f >= 80 /\ humidity >= 40
    THEN [callee |-> "heat_index", value |-> heat_index(temp_f, humidity)]
    ELSE IF temp_f <= 50 /\ wind_mph >= 3
    THEN [callee |-> "wind_chill", value |-> wind_chill(temp_f, wind_mph)]
    ELSE [callee |-> "apparent_temperature",
          value |-> apparent_temperature(temp_f, humidity, wind_mph)]

(***************************************************************************)
(* Feels-like calculator of the data service                               *)
(* (src/src/influxdb_data_service.py)                                      *)
(***************************************************************************)
ds_heat_index(temp_f, humidity) ==
    IF temp_f < 80 \/ humidity < 40
    THEN temp_f * 10
    ELSE LET hi == Rothfusz(temp_f, humidity)
             adj == IF humidity < 13 /\ 80 <= temp_f /\ temp_f <= 112
                    THEN hi - (13 - humidity) * 25
                              * ISqrt(((17 - Abs(temp_f - 95)) * 100000000) \div 17)
                    ELSE IF humidity > 85 /\ 80 <= temp_f /\ temp_f <= 87
                    THEN hi + (humidity - 85) * (87 - temp_f) * 20000
                    ELSE hi
         IN  Round1(adj)

ds_wind_chill(temp_f, wind_mph) ==
    IF temp_f > 50 \/ wind_mph < 3
    THEN temp_f * 10
    ELSE LET p5 == WindPow[wind_mph]
             wc5 == 3574000 + 62150 * temp_f - ((3575 * p5) \div 100)
                    + ((4275 * p5) \div 10000) * temp_f
         IN  Round1(wc5 * 10)

ds_apparent_temperature(temp_f, humidity, wind_mph) ==
    LET sat7 == MulDiv(MagnusExp[temp_f + 1], 6105, 1000)
        e7 == MulDiv(sat7, humidity, 100)
        d7 == MulDiv(e7, 594, 1000) - 5632704 * wind_mph - 72000000
    IN  Round1(temp_f * 1000000 + (d7 \div 10))

ds_calculate_feels_like(temp_f, humidity, wind_mph) ==
    IF temp_f >= 80 /\ humidity >= 40
    THEN [callee |-> "heat_index", value |-> ds_heat_index(temp_f, humidity)]
    ELSE IF temp_f <= 50 /\ wind_mph >= 3
    THEN [callee |-> "wind_chill", value |-> ds_wind_chill(temp_f, wind_mph)]
    ELSE [callee |-> "apparent_temperature",
          value |-> ds_apparent_temperature(temp_f, humidity, wind_mph)]

(***************************************************************************)
(* Specification of the feels-like calculator: the arguments are drawn in  *)
(* the initial state, the actions apply the functions.                     *)
(***************************************************************************)
FeelsTemps == 25..MaxTempF
FeelsHumidities == {0, 10, 12, 13, 20, 39} \cup (40..100)
FeelsWinds == 0..MaxWind

InitFeels ==
    /\ influx = << >>
    /\ now = [minute |-> 0, hour |-> 12, month |-> 7]
    /\ current_data = EmptyDict
    /\ all_readings = << >>
    /\ \E t \in FeelsTemps, h \in FeelsHumidities, w \in FeelsWinds :
          args = [temp_f |-> t, humidity |-> h, wind_mph |-> w]
    /\ result = NotCalled
    /\ threads = << >>
    /\ ServicesIdle

CalculateFeelsLike ==
    /\ result = NotCalled
    /\ result' = [op |-> "calculate_feels_like",
                  ret |-> calculate_feels_like(args.temp_f, args.humidity, args.wind_mph)]
    /\ UNCHANGED << influx, now, current_data, all_readings, args, threads >>
    /\ UNCHANGED services

DsCalculateFeelsLike ==
    /\ result = NotCalled
    /\ result' = [op |-> "_calculate_feels_like",
                  ret |-> ds_calculate_feels_like(args.temp_f, args.humidity, args.wind_mph)]
    /\ UNCHANGED << influx, now, current_data, all_readings, args, threads >>
    /\ UNCHANGED services

\* heat_index called on its own, outside calculate_feels_like
HeatIndex ==
    /\ result = NotCalled
    /\ result' = [op |-> "heat_index", ret |-> heat_index(args.temp_f, args.humidity)]
    /\ UNCHANGED << influx, now, current_data, all_readings, args, threads >>
    /\ UNCHANGED services

DsHeatIndex ==
    /\ result = NotCalled
    /\ result' = [op |-> "_heat_index", ret |-> ds_heat_index(args.temp_f, args.humidity)]
    /\ UNCHANGED << influx, now, current_data, all_readings, args, threads >>
    /\ UNCHANGED services

NextFeels == CalculateFeelsLike \/ DsCalculateFeelsLike \/ HeatIndex \/ DsHeatIndex

SpecFeels == InitFeels /\ [][NextFeels]_vars

FeelsLikeCalled == result.op \in {"calculate_feels_like", "_calculate_feels_like"}

InHeatIndexRegime == args.temp_f >= 80 /\ args.humidity >= 40

InWindChillRegime == ~InHeatIndexRegime /\ args.temp_f <= 50 /\ args.wind_mph >= 3

C9_HeatIndexAtLeastTemp ==
    (FeelsLikeCalled /\ InHeatIndexRegime /\ args.humidity <= 100)
        => result.ret.value >= args.temp_f * 10

\* C9 amended: for temp_f >= 80 and 45 <= humidity <= 100 the heat index is
\* at least temp_f (below 45% it can fall short, heat_index(80, 40) = 79.9);
\* feels-like of (82, 45, 0) is the heat index 82.1 >= 82.
C9_HeatIndexAtLeastTempFrom45 ==
    (FeelsLikeCalled /\ args.temp_f >= 80 /\ args.humidity >= 45 /\ args.humidity <= 100)
        => /\ result.ret.callee = "heat_index"
           /\ result.ret.value >= args.temp_f * 10

C9_Witness ==
    /\ result.op = "calculate_feels_like"
    /\ args = [temp_f |-> 82, humidity |-> 45, wind_mph |-> 0]
    /\ result.ret = [callee |-> "heat_index", value |-> 821]

\* C10: for cold weather with no wind (temp_f = 30, humidity = 50, wind_mph
\* defaulted to 0) calculate_feels_like uses wind_chill, so its result is
\* wind_chill's result for that temperature.
C10_ColdNoWindUsesWindChill ==
    (result.op = "calculate_feels_like"
       /\ args = [temp_f |-> 30, humidity |-> 50, wind_mph |-> 0])
        => /\ result.ret.callee = "wind_chill"
           /\ result.ret.value = wind_chill(30, 0)

(***************************************************************************)
(* Reading store and trend analysis                                        *)
(***************************************************************************)
HasPressure(r) == "pressure_hpa" \in DOMAIN r

\* WeatherDataService.get_recent_data: the Flux range(start: -N) query over
\* the bucket, grouped by timestamp, sorted, readings without any field
\* dropped.  The window is given in minutes (hours * 60 or minutes).
get_recent_data(window) ==
    LET InRange(r) == /\ r.timestamp >= now.minute - window
                      /\ r.timestamp < now.minute
                      /\ Cardinality(DOMAIN r) > 1
    IN  SelectSeq(influx, InRange)

Insufficient == {"Insufficient data", "Insufficient pressure data"}

\* get_temperature_trend with inclusive thresholds
get_temperature_trend_Inclusive(hours) ==
    LET recent_readings == get_recent_data(hours * 60)
    IN  IF Len(recent_readings) < 2
        THEN [label |-> "Insufficient data"]
        ELSE LET temp_change == recent_readings[Len(recent_readings)].temperature_f
                                - recent_readings[1].temperature_f
             IN  [label |-> IF temp_change >= 5 THEN "Rising rapidly"
                            ELSE IF temp_change >= 2 THEN "Rising"
                            ELSE IF temp_change <= -5 THEN "Falling rapidly"
                            ELSE IF temp_change <= -2 THEN "Falling"
                            ELSE "Stable",
                  change |-> temp_change]

get_temperature_trend(hours) ==
    LET recent_readings == get_recent_data(hours * 60)
    IN  IF Len(recent_readings) < 2
        THEN [label |-> "Insufficient data"]
        ELSE LET temp_change == recent_readings[Len(recent_readings)].temperature_f
                                - recent_readings[1].temperature_f
             IN  [label |-> IF temp_change > 5 THEN "Rising rapidly"
                            ELSE IF temp_change > 2 THEN "Rising"
                            ELSE IF temp_change < -5 THEN "Falling rapidly"
                            ELSE IF temp_change < -2 THEN "Falling"
                            ELSE "Stable",
                  change |-> temp_change]

get_humidity_trend(hours) ==
    LET recent_readings == get_recent_data(hours * 60)
    IN  IF Len(recent_readings) < 2
        THEN [label |-> "Insufficient data"]
        ELSE LET humidity_change == recent_readings[Len(recent_readings)].humidity
                                    - recent_readings[1].humidity
             IN  [label |-> IF humidity_change > 15 THEN "Rising rapidly"
                            ELSE IF humidity_change > 5 THEN "Rising"
                            ELSE IF humidity_change < -15 THEN "Falling rapidly"
                            ELSE IF humidity_change < -5 THEN "Falling"
                            ELSE "Stable",
                  change |-> humidity_change]

\* The five bands shared by the three get_pressure_trend implementations;
\* the change is the fraction num/den of tenths of a hPa, den > 0.
PressureBand(num, den) ==
    IF num < -30 * den THEN "Falling rapidly"
    ELSE IF num < -10 * den THEN "Falling"
    ELSE IF num > 30 * den THEN "Rising rapidly"
    ELSE IF num > 10 * den THEN "Rising"
    ELSE "Stable"

Max(a, b) == IF a >= b THEN a ELSE b

\* src/src/dashboard_masterbox.py: first/last difference, at least 2 readings
get_pressure_trend(hours) ==
    LET recent_readings == get_recent_data(hours * 60)
        recent_with_pressure == SelectSeq(recent_readings, HasPressure)
        n == Len(recent_with_pressure)
    IN  IF n < 2
        THEN [label |-> "Insufficient pressure data"]
        ELSE LET pressure_change == recent_with_pressure[n].pressure_hpa
                                    - recent_with_pressure[1].pressure_hpa
                 duration == Max(recent_with_pressure[n].timestamp
                                 - recent_with_pressure[1].timestamp, 6)
             IN  [label |-> PressureBand(pressure_change, 1),
                  change |-> pressure_change, den |-> 1, duration |-> duration]

\* root get_pressure_trend requiring only 2 readings
root_get_pressure_trend_Min2(hours) ==
    LET recent_readings == get_recent_data(hours * 60)
        recent_with_pressure == SelectSeq(recent_readings, HasPressure)
        n == Len(recent_with_pressure)
    IN  IF n < 2
        THEN [label |-> "Insufficient pressure data"]
        ELSE LET pressure_change == recent_with_pressure[n].pressure_hpa
                                    - recent_with_pressure[1].pressure_hpa
                 duration == Max(recent_with_pressure[n].timestamp
                                 - recent_with_pressure[1].timestamp, 6)
             IN  [label |-> PressureBand(pressure_change, 1),
                  change |-> pressure_change, den |-> 1, duration |-> duration]

\* src/dashboard_masterbox.py: first/last difference, at least 6 readings
root_get_pressure_trend(hours) ==
    LET recent_readings == get_recent_data(hours * 60)
        recent_with_pressure == SelectSeq(recent_readings, HasPressure)
        n == Len(recent_with_pressure)
    IN  IF n < 6
        THEN [label |-> "Insufficient pressure data"]
        ELSE LET pressure_change == recent_with_pressure[n].pressure_hpa
                                    - recent_with_pressure[1].pressure_hpa
                 duration == Max(recent_with_pressure[n].timestamp
                                 - recent_with_pressure[1].timestamp, 6)
             IN  [label |-> PressureBand(pressure_change, 1),
                  change |-> pressure_change, den |-> 1, duration |-> duration]

(***************************************************************************)
(* WeatherStation (src/dht22_weather_station.py)                           *)
(***************************************************************************)
RECURSIVE SumPressure(_)
SumPressure(seq) ==
    IF seq = << >> THEN 0 ELSE Head(seq).pressure_hpa + SumPressure(Tail(seq))

\* window_mean with a half window of 10 minutes
window_mean_Narrow(readings, center_time) ==
    LET lo == center_time - 10
        hi == center_time + 10
        InWindow(r) == lo <= r.timestamp /\ r.timestamp <= hi
        vals == SelectSeq(readings, InWindow)
    IN  [sum |-> SumPressure(vals), n |-> Len(vals)]

\* window_mean: sum and count of the pressures within 15 minutes of the
\* centre; the mean is sum/n and None when n = 0
window_mean(readings, center_time) ==
    LET lo == center_time - 15
        hi == center_time + 15
        InWindow(r) == lo <= r.timestamp /\ r.timestamp <= hi
        vals == SelectSeq(readings, InWindow)
    IN  [sum |-> SumPressure(vals), n |-> Len(vals)]

\* `window_mean(...) or fallback`: None and 0.0 are both falsy
MeanOr(mean, fallback) ==
    IF mean.n = 0 \/ mean.sum = 0 THEN [sum |-> fallback, n |-> 1] ELSE mean

\* st_get_pressure_trend with the two window means subtracted the wrong way round
st_get_pressure_trend_Swapped(hours) ==
    IF Len(all_readings) < 2
    THEN [label |-> "Insufficient data"]
    ELSE LET cutoff_time == now.minute - hours * 60
             Recent(r) == HasPressure(r) /\ r.timestamp > cutoff_time
             recent == SelectSeq(all_readings, Recent)
         IN  IF Len(recent) < 6
             THEN [label |-> "Insufficient pressure data"]
             ELSE LET t0 == recent[1].timestamp
                      t1 == recent[Len(recent)].timestamp
                      c0 == t0 + 15
                      c1 == t1 - 15
                      p0 == MeanOr(window_mean(recent, c0), recent[1].pressure_hpa)
                      p1 == MeanOr(window_mean(recent, c1),
                                   recent[Len(recent)].pressure_hpa)
                      num == p0.sum * p1.n - p1.sum * p0.n
                      den == p0.n * p1.n
                  IN  [label |-> PressureBand(num, den),
                       change |-> num, den |-> den, duration |-> Max(c1 - c0, 6)]

st_get_pressure_trend(hours) ==
    IF Len(all_readings) < 2
    THEN [label |-> "Insufficient data"]
    ELSE LET cutoff_time == now.minute - hours * 60
             Recent(r) == HasPressure(r) /\ r.timestamp > cutoff_time
             recent == SelectSeq(all_readings, Recent)
         IN  IF Len(recent) < 6
             THEN [label |-> "Insufficient pressure data"]
             ELSE LET t0 == recent[1].timestamp
                      t1 == recent[Len(recent)].timestamp
                      c0 == t0 + 15
                      c1 == t1 - 15
                      p0 == MeanOr(window_mean(recent, c0), recent[1].pressure_hpa)
                      p1 == MeanOr(window_mean(recent, c1),
                                   recent[Len(recent)].pressure_hpa)
                      num == p1.sum * p0.n - p0.sum * p1.n
                      den == p0.n * p1.n
                  IN  [label |-> PressureBand(num, den),
                       change |-> num, den |-> den, duration |-> Max(c1 - c0, 6)]

st_get_temperature_trend(hours) ==
    IF Len(all_readings) < 2
    THEN [label |-> "Insufficient data"]
    ELSE LET cutoff_time == now.minute - hours * 60
             Recent(r) == r.timestamp > cutoff_time
             recent_readings == SelectSeq(all_readings, Recent)
         IN  IF Len(recent_readings) < 2
             THEN [label |-> "Insufficient data"]
             ELSE LET temp_change == recent_readings[Len(recent_readings)].temperature_f
                                     - recent_readings[1].temperature_f
                  IN  [label |-> IF temp_change > 5 THEN "Rising rapidly"
                                 ELSE IF temp_change > 2 THEN "Rising"
                                 ELSE IF temp_change < -5 THEN "Falling rapidly"
                                 ELSE IF temp_change < -2 THEN "Falling"
                                 ELSE "Stable",
                       change |-> temp_change]

st_get_humidity_trend(hours) ==
    IF Len(all_readings) < 2
    THEN [label |-> "Insufficient data"]
    ELSE LET cutoff_time == now.minute - hours * 60
             Recent(r) == r.timestamp > cutoff_time
             recent_readings == SelectSeq(all_readings, Recent)
         IN  IF Len(recent_readings) < 2
             THEN [label |-> "Insufficient data"]
             ELSE LET humidity_change == recent_readings[Len(recent_readings)].humidity
                                         - recent_readings[1].humidity
                  IN  [label |-> IF humidity_change > 15 THEN "Rising rapidly"
                                 ELSE IF humidity_change > 5 THEN "Rising"
                                 ELSE IF humidity_change < -15 THEN "Falling rapidly"
                                 ELSE IF humidity_change < -5 THEN "Falling"
                                 ELSE "Stable",
                       change |-> humidity_change]

(***************************************************************************)
(* Specification of the trend analysers.  The reading history is drawn in  *)
(* the initial state: either a short history whose first and last readings *)
(* differ by a threshold-straddling amount (with off-trend readings in     *)
(* between, any subset of readings carrying a pressure, and optionally a   *)
(* stale reading older than every lookback), or a two-hour linear pressure *)
(* fall from 1020 to 1010 hPa sampled at arbitrary multiples of 6 minutes. *)
(***************************************************************************)
MaxWindow == 7
MaxSamples == 6

TempDeltas == << -6, -5, -3, -2, 0, 2, 3, 5, 6 >>
HumidityDeltas == << -16, -15, -6, -5, 0, 5, 6, 15, 16 >>
PressureDeltas == << -31, -30, -11, -10, 0, 10, 11, 30, 31 >>

Reading(ts, t, h) == [timestamp |-> ts, temperature_f |-> t, humidity |-> h]

WithPressure(r, p) == r @@ [pressure_hpa |-> p]

ShapedHistory(n, d, mask, stale) ==
    LET Off(i, delta, noise) == IF i = 1 THEN 0 ELSE IF i = n THEN delta ELSE noise
        At(i) == LET r == Reading(-7 * (n - i) - 1,
                                  70 + Off(i, TempDeltas[d], 20),
                                  50 + Off(i, HumidityDeltas[d], 30))
                 IN  IF i \in mask
                     THEN WithPressure(r, 10130 + Off(i, PressureDeltas[d], 50))
                     ELSE r
        fresh == [i \in 1..n |-> At(i)]
    IN  IF stale
        THEN << WithPressure(Reading(-500, 40, 20), 9500) >> \o fresh
        ELSE fresh

SampleTimes == {6 * k : k \in 1..19}

UniformFall(times) ==
    LET n == Cardinality(times)
        Nth(i) == CHOOSE t \in times : Cardinality({u \in times : u < t}) = i - 1
    IN  [i \in 1..n |-> WithPressure(Reading(Nth(i), 70, 50), 10200 - (5 * Nth(i)) \div 6)]

InitTrendShaped ==
    /\ now = [minute |-> 0, hour |-> 12, month |-> 7]
    /\ \E n \in 0..MaxWindow, d \in 1..9, stale \in BOOLEAN :
         \E mask \in SUBSET (1..n) :
            /\ influx = ShapedHistory(n, d, mask, stale)
            /\ all_readings = ShapedHistory(n, d, mask, stale)

InitTrendUniformFall ==
    /\ \E lag \in {0, 59} : now = [minute |-> 120 + lag, hour |-> 12, month |-> 7]
    /\ \E inner \in SUBSET SampleTimes :
            /\ Cardinality(inner) >= 4
            /\ Cardinality(inner) <= MaxSamples - 2
            /\ influx = UniformFall({0, 120} \cup inner)
            /\ all_readings = UniformFall({0, 120} \cup inner)

ClusterSizes == {6, 7}

ClusterGaps == {1, 5, 6}

ClusterPressures == {9900, 10200}

\* n readings `gap` minutes apart, the last one a minute old, each with one
\* of two pressures
Clustered(n, gap, high) ==
    [i \in 1..n |-> WithPressure(Reading(-gap * (n - i) - 1, 70, 50),
                                 IF i \in high THEN 10200 ELSE 9900)]

InitTrendClustered ==
    /\ now = [minute |-> 0, hour |-> 12, month |-> 7]
    /\ \E n \in ClusterSizes, gap \in ClusterGaps :
         \E high \in SUBSET (1..n) :
            /\ influx = Clustered(n, gap, high)
            /\ all_readings = Clustered(n, gap, high)

InitTrend ==
    /\ InitTrendShaped \/ InitTrendUniformFall \/ InitTrendClustered
    /\ current_data = EmptyDict
    /\ args = << >>
    /\ result = NotCalled
    /\ threads = << >>
    /\ ServicesIdle

Call(op, ret) ==
    /\ result = NotCalled
    /\ result' = [op |-> op, ret |-> ret]
    /\ UNCHANGED << influx, now, current_data, all_readings, args, threads >>
    /\ UNCHANGED services

GetTemperatureTrend == Call("get_temperature_trend", get_temperature_trend(2))

GetHumidityTrend == Call("get_humidity_trend", get_humidity_trend(2))

GetPressureTrend == Call("get_pressure_trend", get_pressure_trend(1))

RootGetPressureTrend == Call("root.get_pressure_trend", root_get_pressure_trend(3))

StGetPressureTrend == Call("station.get_pressure_trend", st_get_pressure_trend(3))

StGetTemperatureTrend == Call("station.get_temperature_trend", st_get_temperature_trend(2))

StGetHumidityTrend == Call("station.get_humidity_trend", st_get_humidity_trend(2))

NextTrend ==
    \/ GetTemperatureTrend
    \/ GetHumidityTrend
    \/ GetPressureTrend
    \/ RootGetPressureTrend
    \/ StGetPressureTrend
    \/ StGetTemperatureTrend
    \/ StGetHumidityTrend

SpecTrend == InitTrend /\ [][NextTrend]_vars

\* The pressure-bearing readings of the station inside a lookback of `hours`
PressureWindow(store, hours) ==
    {i \in 1..Len(store) :
        HasPressure(store[i]) /\ store[i].timestamp > now.minute - hours * 60}

\* The station's three-hour window holds at least 6 pressure readings that
\* span exactly two hours and fall linearly from 1020.0 to 1010.0 hPa.
IsUniformFall ==
    LET w == PressureWindow(all_readings, 3)
    IN  /\ Cardinality(w) >= 6
        /\ \E i \in w : \E j \in w :
              /\ all_readings[j].timestamp = all_readings[i].timestamp + 120
              /\ all_readings[i].pressure_hpa = 10200
              /\ all_readings[j].pressure_hpa = 10100
              /\ \A k \in w :
                    /\ all_readings[k].timestamp >= all_readings[i].timestamp
                    /\ all_readings[k].timestamp <= all_readings[j].timestamp
                    /\ 6 * (10200 - all_readings[k].pressure_hpa)
                          = 5 * (all_readings[k].timestamp - all_readings[i].timestamp)

\* C5: for a window of at least 6 pressure readings falling linearly from
\* 1020 to 1010 hPa over exactly 2 hours the smoothed pressure trend of the
\* station reports "Falling rapidly".
C5_UniformFallIsFallingRapidly ==
    (result.op = "station.get_pressure_trend" /\ IsUniformFall)
        => result.ret.label = "Falling rapidly"

C5_Witness ==
    /\ result.op = "station.get_pressure_trend"
    /\ IsUniformFall
    /\ Len(all_readings) = 6
    /\ result.ret.label = "Falling rapidly"
    /\ result.ret.duration = 90

IsPressureTrend ==
    result.op \in {"get_pressure_trend", "root.get_pressure_trend",
                   "station.get_pressure_trend"}

\* The number of pressure-bearing readings in the lookback window of the
\* implementation that produced the result
PressureCount ==
    IF result.op = "get_pressure_trend"
    THEN Len(SelectSeq(get_recent_data(60), HasPressure))
    ELSE IF result.op = "root.get_pressure_trend"
    THEN Len(SelectSeq(get_recent_data(180), HasPressure))
    ELSE Cardinality(PressureWindow(all_readings, 3))

BandOf(change, small, large) ==
    CASE change > large -> "Rising rapidly"
      [] change > small /\ change <= large -> "Rising"
      [] change < -large -> "Falling rapidly"
      [] change < -small /\ change >= -large -> "Falling"
      [] change >= -small /\ change <= small -> "Stable"

MulDivR(x, n, d) == (x \div d) * n + ((x % d) * n + d \div 2) \div d

\* math.log(humidity / 100.0) for humidity = 1..100, in hundred-thousandths
Ln5 ==
  << -460517, -391202, -350656, -321888, -299573, -281341, -265926, -252573, -240795, -230259,
     -220727, -212026, -204022, -196611, -189712, -183258, -177196, -171480, -166073, -160944,
     -156065, -151413, -146968, -142712, -138629, -134707, -130933, -127297, -123787, -120397,
     -117118, -113943, -110866, -107881, -104982, -102165, -99425, -96758, -94161, -91629,
     -89160, -86750, -84397, -82098, -79851, -77653, -75502, -73397, -71335, -69315,
     -67334, -65393, -63488, -61619, -59784, -57982, -56212, -54473, -52763, -51083,
     -49430, -47804, -46204, -44629, -43078, -41552, -40048, -38566, -37106, -35667,
     -34249, -32850, -31471, -30111, -28768, -27444, -26136, -24846, -23572, -22314,
     -21072, -19845, -18633, -17435, -16252, -15082, -13926, -12783, -11653, -10536,
     -9431, -8338, -7257, -6188, -5129, -4082, -3046, -2020, -1005, 0 >>

\* the Magnus dew point left in degrees Celsius
MagnusDewPoint_Celsius(temp_f, humidity) ==
    LET term5 == MulDivR(863500 * (temp_f - 32), 100, 21393 + 50 * (temp_f - 32))
        alpha5 == term5 + Ln5[humidity]
    IN  MulDivR(2377 * alpha5, 100, 1727000 - alpha5)

\* The Magnus dew point in thousandths of a degree F, for humidity = 1..100:
\*   alpha = a*temp_c/(b + temp_c) + ln(humidity/100),  a = 17.27, b = 237.7
\*   dew_point_c = b*alpha/(a - alpha),  dew_point_f = dew_point_c*9/5 + 32
MagnusDewPoint(temp_f, humidity) ==
    LET term5 == MulDivR(863500 * (temp_f - 32), 100, 21393 + 50 * (temp_f - 32))
        alpha5 == term5 + Ln5[humidity]
        dew_point_c == MulDivR(2377 * alpha5, 100, 1727000 - alpha5)
    IN  (dew_point_c * 9 + 2) \div 5 + 32000

\* math.log raises ValueError ("math domain error") for an argument <= 0
LogRaises(humidity) == humidity <= 0

AppendIf(seq, cond, x) == IF cond THEN Append(seq, x) ELSE seq

\* r.get("pressure_hpa") is not None
PressureNotNone(r) == "pressure_hpa" \in DOMAIN r

\* `if pressure:` -- neither None nor 0
Truthy(d, k) == k \in DOMAIN d /\ d[k] # 0

\* the change between the first and the last pressure reading of the last
\* hour, in tenths of a hPa (0 when the current pressure is falsy or fewer
\* than two such readings exist)
PressureChangeRate ==
    IF ~Truthy(current_data, "pressure_hpa") THEN 0
    ELSE LET pressure_readings == SelectSeq(get_recent_data(60), HasPressure)
             n == Len(pressure_readings)
         IN  IF n >= 2
             THEN pressure_readings[n].pressure_hpa - pressure_readings[1].pressure_hpa
             ELSE 0

SeqMax(s) == CHOOSE m \in {s[i] : i \in 1..Len(s)} : \A i \in 1..Len(s) : s[i] <= m

SeqMin(s) == CHOOSE m \in {s[i] : i \in 1..Len(s)} : \A i \in 1..Len(s) : s[i] >= m

HEAVY_PRECIPITATION ==
    "HEAVY PRECIPITATION LIKELY/ONGOING - High humidity with pressure fall or sustained moisture"

LIGHT_PRECIPITATION == "LIGHT PRECIPITATION POSSIBLE - Very high humidity"

THUNDERSTORM_LIKELY_NOW == "THUNDERSTORM LIKELY (2-6h) - Heat + moisture + pressure fall"

THUNDERSTORM_POSSIBLE_DEWPOINT == "THUNDERSTORM POSSIBLE - High dewpoint with low spread"

THUNDERSTORM_POSSIBLE_SPIKE == "THUNDERSTORM POSSIBLE - Rapid moisture increase detected"

PRESSURE_VOLATILITY == "PRESSURE VOLATILITY - Active weather system present"

\* the detectors with humidity tests that need more than 92 %
detect_current_conditions_Exceed ==
    IF DOMAIN current_data = {} THEN << >>
    ELSE
    LET temp_f == Get(current_data, "temperature_f", 0)
        humidity == Get(current_data, "humidity", 0)
        \* try: Magnus formula / except: fallback
        dew_point_f == IF LogRaises(humidity) THEN (temp_f - 20) * 1000
                       ELSE MagnusDewPoint(temp_f, humidity)
        temp_dew_spread == IF LogRaises(humidity) THEN 20000
                           ELSE temp_f * 1000 - dew_point_f
        pressure_change_rate == PressureChangeRate
        recent_10min == get_recent_data(10)
        high_humidity_count ==
            Len(SelectSeq(recent_10min, LAMBDA r : Get(r, "humidity", 0) > 92))
        humidity_sustained == /\ humidity > 92
                              /\ Len(recent_10min) >= 3
                              /\ 10 * high_humidity_count >= 7 * Len(recent_10min)
        recent_30min == get_recent_data(30)
        humidity_spike ==
            /\ Len(recent_30min) >= 2
            /\ Get(recent_30min[Len(recent_30min)], "humidity", 0)
                 - Get(recent_30min[1], "humidity", 0) >= 8
        with_pressure == SelectSeq(recent_30min, PressureNotNone)
        pressure_values == [i \in 1..Len(with_pressure) |-> with_pressure[i].pressure_hpa]
        volatile == /\ Len(recent_30min) >= 3
                    /\ Len(pressure_values) >= 3
                    /\ SeqMax(pressure_values) - SeqMin(pressure_values) > 20
        precipitation ==
            IF humidity > 92 /\ (pressure_change_rate <= -15 \/ humidity_sustained)
            THEN << HEAVY_PRECIPITATION >>
            ELSE IF humidity > 85 THEN << LIGHT_PRECIPITATION >>
            ELSE << >>
        thunderstorm ==
            IF temp_f >= 82 /\ dew_point_f >= 66000 /\ pressure_change_rate <= -15
            THEN << THUNDERSTORM_LIKELY_NOW >>
            ELSE IF temp_f >= 78 /\ dew_point_f >= 70000 /\ temp_dew_spread <= 12000
            THEN << THUNDERSTORM_POSSIBLE_DEWPOINT >>
            ELSE IF temp_f >= 75 /\ humidity_spike
            THEN << THUNDERSTORM_POSSIBLE_SPIKE >>
            ELSE << >>
    IN  AppendIf(precipitation \o thunderstorm, volatile, PRESSURE_VOLATILITY)

detect_current_conditions ==
    IF DOMAIN current_data = {} THEN << >>
    ELSE
    LET temp_f == Get(current_data, "temperature_f", 0)
        humidity == Get(current_data, "humidity", 0)
        \* try: Magnus formula / except: fallback
        dew_point_f == IF LogRaises(humidity) THEN (temp_f - 20) * 1000
                       ELSE MagnusDewPoint(temp_f, humidity)
        temp_dew_spread == IF LogRaises(humidity) THEN 20000
                           ELSE temp_f * 1000 - dew_point_f
        pressure_change_rate == PressureChangeRate
        recent_10min == get_recent_data(10)
        high_humidity_count ==
            Len(SelectSeq(recent_10min, LAMBDA r : Get(r, "humidity", 0) >= 92))
        humidity_sustained == /\ humidity >= 92
                              /\ Len(recent_10min) >= 3
                              /\ 10 * high_humidity_count >= 7 * Len(recent_10min)
        recent_30min == get_recent_data(30)
        humidity_spike ==
            /\ Len(recent_30min) >= 2
            /\ Get(recent_30min[Len(recent_30min)], "humidity", 0)
                 - Get(recent_30min[1], "humidity", 0) >= 8
        with_pressure == SelectSeq(recent_30min, PressureNotNone)
        pressure_values == [i \in 1..Len(with_pressure) |-> with_pressure[i].pressure_hpa]
        volatile == /\ Len(recent_30min) >= 3
                    /\ Len(pressure_values) >= 3
                    /\ SeqMax(pressure_values) - SeqMin(pressure_values) > 20
        precipitation ==
            IF humidity >= 92 /\ (pressure_change_rate <= -15 \/ humidity_sustained)
            THEN << HEAVY_PRECIPITATION >>
            ELSE IF humidity > 85 THEN << LIGHT_PRECIPITATION >>
            ELSE << >>
        thunderstorm ==
            IF temp_f >= 82 /\ dew_point_f >= 66000 /\ pressure_change_rate <= -15
            THEN << THUNDERSTORM_LIKELY_NOW >>
            ELSE IF temp_f >= 78 /\ dew_point_f >= 70000 /\ temp_dew_spread <= 12000
            THEN << THUNDERSTORM_POSSIBLE_DEWPOINT >>
            ELSE IF temp_f >= 75 /\ humidity_spike
            THEN << THUNDERSTORM_POSSIBLE_SPIKE >>
            ELSE << >>
    IN  AppendIf(precipitation \o thunderstorm, volatile, PRESSURE_VOLATILITY)

\* f"{x:.1f}" of a value given in tenths
Fmt1(x10) ==
    (IF x10 < 0 THEN "-" ELSE "") \o ToString(Abs(x10) \div 10) \o "." \o ToString(Abs(x10) % 10)

\* round-half-even of x / unit, as f"{v:.0f}" does for a non-negative v
RoundHalfEven(x, unit) ==
    LET q == x \div unit
        r == x % unit
    IN  IF 2 * r > unit \/ (2 * r = unit /\ q % 2 = 1) THEN q + 1 ELSE q

\* the table with a winter morning base rate of 0.45
FOG_SEASONAL_PROBABILITY_Foggier ==
    [winter |-> [overnight |-> 250, morning |-> 450, midday |-> 20, evening |-> 80],
     spring |-> [overnight |-> 200, morning |-> 250, midday |-> 10, evening |-> 50],
     summer |-> [overnight |-> 150, morning |-> 200, midday |-> 1, evening |-> 30],
     fall   |-> [overnight |-> 220, morning |-> 280, midday |-> 20, evening |-> 70]]

\* FOG_SEASONAL_PROBABILITY, in thousandths
FOG_SEASONAL_PROBABILITY ==
    [winter |-> [overnight |-> 250, morning |-> 300, midday |-> 20, evening |-> 80],
     spring |-> [overnight |-> 200, morning |-> 250, midday |-> 10, evening |-> 50],
     summer |-> [overnight |-> 150, morning |-> 200, midday |-> 1, evening |-> 30],
     fall   |-> [overnight |-> 220, morning |-> 280, midday |-> 20, evening |-> 70]]

Season(month) ==
    IF month \in {12, 1, 2} THEN "winter"
    ELSE IF month \in {3, 4, 5} THEN "spring"
    ELSE IF month \in {6, 7, 8} THEN "summer"
    ELSE "fall"

TimePeriod(hour) ==
    IF 0 <= hour /\ hour < 6 THEN "overnight"
    ELSE IF 6 <= hour /\ hour < 10 THEN "morning"
    ELSE IF 10 <= hour /\ hour < 15 THEN "midday"
    ELSE "evening"

\* ', '.join(fog_conditions[:2])
JoinFirstTwo(conds) ==
    IF Len(conds) = 0 THEN ""
    ELSE IF Len(conds) = 1 THEN conds[1]
    ELSE conds[1] \o ", " \o conds[2]

NoFog == [raised |-> "none", found |-> FALSE, prediction |-> "",
          probability |-> 0, conditions |-> << >>]

FogRaised == [raised |-> "ValueError", found |-> FALSE, prediction |-> "",
              probability |-> 0, conditions |-> << >>]

\* predict_fog after the dew point is known (lines from the spread on);
\* the probability is in ten-thousandths of a percent.
FogAssessment(temp_f, humidity) ==
    LET pressure == Get(current_data, "pressure_hpa", 0)
        has_pressure == Truthy(current_data, "pressure_hpa")
        temp_dewpoint_spread == temp_f * 1000 - MagnusDewPoint(temp_f, humidity)
        season == Season(now.month)
        time_period == TimePeriod(now.hour)
        base_probability == FOG_SEASONAL_PROBABILITY[season][time_period]
        spread_text == Fmt1((temp_dewpoint_spread + 50) \div 100) \o "F spread)"
        c1 == IF temp_dewpoint_spread <= 2000
              THEN << "Dew point very close (" \o spread_text >>
              ELSE IF temp_dewpoint_spread <= 4000
              THEN << "Dew point close (" \o spread_text >>
              ELSE << >>
        s1 == IF temp_dewpoint_spread <= 2000 THEN 40
              ELSE IF temp_dewpoint_spread <= 4000 THEN 20
              ELSE IF temp_dewpoint_spread <= 6000 THEN 5
              ELSE 0
        c2 == AppendIf(c1, humidity >= 95, "Very high humidity")
        s2 == s1 + (IF humidity >= 95 THEN 30
                    ELSE IF humidity >= 90 THEN 15
                    ELSE IF humidity >= 85 THEN 5
                    ELSE 0)
        high_pressure == has_pressure /\ 10150 <= pressure /\ pressure <= 10250
        c3 == AppendIf(c2, high_pressure, "Stable high pressure")
        s3 == s2 + (IF high_pressure THEN 10 ELSE 0)
        summer_morning == season = "summer" /\ time_period = "morning"
                          /\ 65 <= temp_f /\ temp_f <= 75
        summer_day == season = "summer" /\ time_period \in {"midday", "evening"}
        fog_range == season # "summer" /\ 35 <= temp_f /\ temp_f <= 55
        c4 == AppendIf(AppendIf(c3, summer_morning, "Ideal morning fog temperature"),
                       fog_range, "Favorable fog temperature range")
        s4 == s3 + (IF summer_morning THEN 15
                    ELSE IF summer_day THEN -30
                    ELSE IF fog_range THEN 10
                    ELSE 0)
        calm == has_pressure /\ get_pressure_trend(1).label = "Stable"
        c5 == AppendIf(c4, calm, "Likely calm conditions")
        s5 == s4 + (IF calm THEN 5 ELSE 0)
        moistening == get_humidity_trend(6).label = "Rising rapidly"
        fog_conditions == AppendIf(c5, moistening, "Recent moisture increase")
        fog_score == s5 + (IF moistening THEN 10 ELSE 0)
        scaled == fog_score * base_probability * (IF summer_day THEN 1 ELSE 10)
        fog_probability == IF scaled <= 950000 THEN scaled ELSE 950000
        severity == IF fog_probability >= 700000 THEN "Very likely"
                    ELSE IF fog_probability >= 400000 THEN "Likely"
                    ELSE "Possible"
        guidance == IF fog_probability < 400000 THEN ""
                    ELSE IF time_period = "evening" THEN " - Developing overnight"
                    ELSE IF time_period = "overnight" THEN " - Through early morning"
                    ELSE IF time_period = "morning" THEN " - Clearing by mid-morning"
                    ELSE ""
        message == "Fog " \o severity \o " ("
                   \o ToString(RoundHalfEven(fog_probability, 10000)) \o "% chance)"
                   \o (IF Len(fog_conditions) > 0
                       THEN " - " \o JoinFirstTwo(fog_conditions) ELSE "")
                   \o guidance
    IN  IF fog_probability < 200000 THEN NoFog
        ELSE [raised |-> "none", found |-> TRUE, prediction |-> message,
              probability |-> fog_probability, conditions |-> fog_conditions]

\* predict_fog: the Magnus formula is evaluated outside any try block, so the
\* ValueError of math.log leaves the method when humidity <= 0.
predict_fog ==
    IF DOMAIN current_data = {} THEN NoFog
    ELSE LET temp_f == Get(current_data, "temperature_f", 0)
             humidity == Get(current_data, "humidity", 0)
         IN  IF LogRaises(humidity) THEN FogRaised
             ELSE FogAssessment(temp_f, humidity)

\* One forecast line together with its confidence_scores entry; confidences
\* are in ten-thousandths of a percent, like the fog probability.
Signal(text, key, percent) == [text |-> text, key |-> key, confidence |-> percent * 10000]

\* calculate_dew_point (nested in predict_weather), thousandths of a degree F
calculate_dew_point(temp_f, humidity) ==
    IF humidity <= 0 THEN -100000 ELSE MagnusDewPoint(temp_f, humidity)

\* The pressure-level chain; pressure in tenths of a hPa, rate in tenths/hr
\* the pressure-band chain closed by an else branch for 1010..1020 hPa
PressureLevelForecast_Total(pressure, pressure_change_rate, humidity) ==
    IF pressure < 9800
    THEN << Signal("Major storm system - severe weather imminent", "storm", 95) >>
    ELSE IF pressure < 9950 /\ pressure_change_rate < -20
    THEN << Signal("Rapidly intensifying storm approaching", "storm", 85) >>
    ELSE IF pressure < 10000
    THEN << Signal("Low pressure system - rain/storms likely within 6-12 hours", "rain", 75) >>
    ELSE IF pressure < 10100
    THEN IF humidity > 70
         THEN << Signal("Unsettled weather - scattered showers possible", "rain", 60) >>
         ELSE << Signal("Cloudy conditions expected", "clouds", 70) >>
    ELSE IF pressure > 10300
    THEN << Signal("High pressure - clear, stable weather for 24+ hours", "clear", 90) >>
    ELSE << Signal("Fair weather expected", "fair", 80) >>

PressureLevelForecast(pressure, pressure_change_rate, humidity) ==
    IF pressure < 9800
    THEN << Signal("Major storm system - severe weather imminent", "storm", 95) >>
    ELSE IF pressure < 9950 /\ pressure_change_rate < -20
    THEN << Signal("Rapidly intensifying storm approaching", "storm", 85) >>
    ELSE IF pressure < 10000
    THEN << Signal("Low pressure system - rain/storms likely within 6-12 hours", "rain", 75) >>
    ELSE IF pressure < 10100
    THEN IF humidity > 70
         THEN << Signal("Unsettled weather - scattered showers possible", "rain", 60) >>
         ELSE << Signal("Cloudy conditions expected", "clouds", 70) >>
    ELSE IF pressure > 10300
    THEN << Signal("High pressure - clear, stable weather for 24+ hours", "clear", 90) >>
    ELSE IF pressure > 10200
    THEN << Signal("Fair weather expected", "fair", 80) >>
    ELSE << >>

\* the pressure-rate chain with inclusive thresholds
PressureRateForecast_Inclusive(pressure_change_rate, humidity) ==
    LET rate == "(" \o Fmt1(pressure_change_rate) \o " hPa/hr)"
    IN  IF pressure_change_rate <= -30
        THEN << Signal("Pressure falling rapidly " \o rate
                       \o " - weather deteriorating within 2-4 hours", "deteriorating", 85) >>
        ELSE IF pressure_change_rate <= -15
        THEN << Signal("Pressure falling " \o rate
                       \o " - weather change within 6-8 hours", "change", 70) >>
        ELSE IF pressure_change_rate >= 20
        THEN IF humidity > 80
             THEN << Signal("STORM CLEARING - Pressure rising rapidly " \o rate
                            \o " after high humidity", "storm_clearing", 90) >>
             ELSE << Signal("Pressure rising rapidly " \o rate
                            \o " - clearing conditions", "clearing", 80) >>
        ELSE IF pressure_change_rate >= 10 /\ humidity > 75
        THEN << Signal("Weather improving - Pressure rising " \o rate
                       \o " as moisture decreases", "improving", 75) >>
        ELSE << >>

\* The pressure-rate chain with storm clearing detection
PressureRateForecast(pressure_change_rate, humidity) ==
    LET rate == "(" \o Fmt1(pressure_change_rate) \o " hPa/hr)"
    IN  IF pressure_change_rate < -30
        THEN << Signal("Pressure falling rapidly " \o rate
                       \o " - weather deteriorating within 2-4 hours", "deteriorating", 85) >>
        ELSE IF pressure_change_rate < -15
        THEN << Signal("Pressure falling " \o rate
                       \o " - weather change within 6-8 hours", "change", 70) >>
        ELSE IF pressure_change_rate > 20
        THEN IF humidity > 80
             THEN << Signal("STORM CLEARING - Pressure rising rapidly " \o rate
                            \o " after high humidity", "storm_clearing", 90) >>
             ELSE << Signal("Pressure rising rapidly " \o rate
                            \o " - clearing conditions", "clearing", 80) >>
        ELSE IF pressure_change_rate > 10 /\ humidity > 75
        THEN << Signal("Weather improving - Pressure rising " \o rate
                       \o " as moisture decreases", "improving", 75) >>
        ELSE << >>

ThunderstormForecast(temp_f, humidity, pressure, pressure_change_rate, dew_point_f) ==
    LET lifted_index == (temp_f * 1000 - dew_point_f) - 10000
    IN  IF /\ temp_f > 75 /\ humidity > 65 /\ pressure < 10150
           /\ pressure_change_rate < -10
           /\ lifted_index < 0
        THEN << Signal("Thunderstorm likely within 2-6 hours (unstable atmosphere)",
                       "thunderstorm", 80) >>
        ELSE << >>

WinterForecast(temp_f, humidity, pressure) ==
    IF temp_f < 38 /\ pressure < 10100 /\ humidity > 70
    THEN IF temp_f <= 32
         THEN << Signal("Snow likely - winter storm conditions developing", "snow", 75) >>
         ELSE << Signal("Wintry mix possible (rain/sleet/snow)", "winter_mix", 65) >>
    ELSE << >>

\* the heat index of the heat rule with the humidity term added
RuleHeatIndex_Added(temp_f, humidity) ==
    10000 * temp_f + (5500 - 55 * humidity) * (temp_f - 58)

\* heat_index = temp_f - (0.55 - 0.55*humidity/100)*(temp_f - 58), in 1/10000
RuleHeatIndex(temp_f, humidity) ==
    10000 * temp_f - (5500 - 55 * humidity) * (temp_f - 58)

HeatForecast(temp_f, humidity) ==
    LET hi == RuleHeatIndex(temp_f, humidity)
        shown == ToString(RoundHalfEven(hi, 10000)) \o "F"
    IN  IF temp_f > 80 /\ hi > 1050000
        THEN << Signal("Dangerous heat - heat index " \o shown, "heat_danger", 95) >>
        ELSE IF temp_f > 80 /\ hi > 900000
        THEN << Signal("Heat advisory - heat index " \o shown, "heat_advisory", 85) >>
        ELSE << >>

FrostForecast(temp_f, humidity) ==
    IF /\ temp_f < 40 /\ humidity > 70
       /\ Truthy(current_data, "pressure_hpa") /\ current_data.pressure_hpa > 10200
    THEN IF temp_f <= 32
         THEN << Signal("Frost/freeze warning tonight", "frost", 85) >>
         ELSE IF temp_f <= 36
         THEN << Signal("Patchy frost possible in rural areas", "frost", 60) >>
         ELSE << >>
    ELSE << >>

FireForecast(temp_f, humidity) ==
    IF humidity < 25 /\ temp_f > 75
    THEN IF humidity < 15
         THEN << Signal("Critical fire weather - extreme caution advised", "fire", 90) >>
         ELSE << Signal("Very dry conditions - elevated fire risk", "fire", 70) >>
    ELSE << >>

\* the fog entry of confidence_scores rounded to whole percents
FogForecast_Rounded(fog_prediction) ==
    IF fog_prediction.found
    THEN << [text |-> fog_prediction.prediction, key |-> "fog",
             confidence |-> RoundHalfEven(fog_prediction.probability, 10000) * 10000] >>
    ELSE << >>

FogForecast(fog_prediction) ==
    IF fog_prediction.found
    THEN << [text |-> fog_prediction.prediction, key |-> "fog",
             confidence |-> fog_prediction.probability] >>
    ELSE << >>

SevereKeys == {"storm", "thunderstorm", "deteriorating", "storm_clearing"}

\* severity decided by the confidence alone, whatever the key
IsSevere_AnyKey(s) == s.confidence >= 750000

IsSevere(s) == s.key \in SevereKeys /\ s.confidence >= 750000

IsRoutine(s) == ~IsSevere(s) /\ s.confidence >= 500000

\* prod(1.0 - p for p in severe_signals), in millionths
RECURSIVE Complement(_)
Complement(signals) ==
    IF signals = << >> THEN 1000000
    ELSE (Complement(Tail(signals)) * ((1000000 - Head(signals).confidence) \div 10000)) \div 100

RECURSIVE SumTo(_, _)
SumTo(f, n) == IF n = 0 THEN 0 ELSE f[n] + SumTo(f, n - 1)

Min(a, b) == IF a <= b THEN a ELSE b

\* The routine confidences (percent, in confidence_scores order, up to four
\* signals of weight 1.0) whose float average (weighted_sum / weight_total)
\* * 100 comes out one ulp above their exact average of 80 or 60.
FloatAverageRoundsUp ==
    { << 65, 80, 95 >>, << 65, 95, 80 >>, << 70, 90, 80 >>, << 75, 85, 80 >>,
      << 80, 65, 95 >>, << 80, 80, 80 >>, << 80, 90, 70 >>, << 85, 75, 80 >>,
      << 90, 70, 80 >>, << 90, 80, 70 >>, << 95, 65, 80 >> }

\* final_confidence with double weight for the keys of the pressure bands
FinalConfidence_BandWeighted(confidence_scores) ==
    LET severe_signals == SelectSeq(confidence_scores, IsSevere)
        routine_signals == SelectSeq(confidence_scores, IsRoutine)
        weights == [i \in 1..Len(confidence_scores) |->
                       IF confidence_scores[i].key \in {"rain", "clouds", "clear", "fair"}
                       THEN 2 ELSE 1]
        k == Min(Len(routine_signals), Len(weights))
        weighted == [i \in 1..k |-> routine_signals[i].confidence * weights[i]]
        weight_total == SumTo(weights, k)
        percents == [i \in 1..k |-> routine_signals[i].confidence \div 10000]
    IN  IF severe_signals # << >>
        THEN [num |-> Max(1000000 - Complement(severe_signals), 750000), den |-> 1,
              ulp |-> 0]
        ELSE IF routine_signals # << >> /\ weight_total > 0
        THEN [num |-> SumTo(weighted, k), den |-> weight_total,
              ulp |-> IF percents \in FloatAverageRoundsUp THEN 1 ELSE 0]
        ELSE [num |-> 500000, den |-> 1, ulp |-> 0]

\* final_confidence as the fraction num/den of ten-thousandths of a percent,
\* plus the sign of the float rounding error where it can decide a label
FinalConfidence(confidence_scores) ==
    LET severe_signals == SelectSeq(confidence_scores, IsSevere)
        routine_signals == SelectSeq(confidence_scores, IsRoutine)
        weights == [i \in 1..Len(confidence_scores) |->
                       IF confidence_scores[i].key \in {"pressure_change", "dewpoint"}
                       THEN 2 ELSE 1]
        k == Min(Len(routine_signals), Len(weights))
        weighted == [i \in 1..k |-> routine_signals[i].confidence * weights[i]]
        weight_total == SumTo(weights, k)
        percents == [i \in 1..k |-> routine_signals[i].confidence \div 10000]
    IN  IF severe_signals # << >>
        THEN [num |-> Max(1000000 - Complement(severe_signals), 750000), den |-> 1,
              ulp |-> 0]
        ELSE IF routine_signals # << >> /\ weight_total > 0
        THEN [num |-> SumTo(weighted, k), den |-> weight_total,
              ulp |-> IF percents \in FloatAverageRoundsUp THEN 1 ELSE 0]
        ELSE [num |-> 500000, den |-> 1, ulp |-> 0]

Exceeds(final_confidence, percent) ==
    \/ final_confidence.num > percent * 10000 * final_confidence.den
    \/ /\ final_confidence.num = percent * 10000 * final_confidence.den
       /\ final_confidence.ulp > 0

\* the labels with the thresholds moved up to 85 and 80
ConfidenceLabel_Shifted(final_confidence) ==
    IF Exceeds(final_confidence, 85)
    THEN "High confidence forecast (>80%)"
    ELSE IF Exceeds(final_confidence, 80)
    THEN "Moderate confidence forecast (60-80%)"
    ELSE "Low confidence forecast (<60%) - monitor closely"

ConfidenceLabel(final_confidence) ==
    IF Exceeds(final_confidence, 80)
    THEN "High confidence forecast (>80%)"
    ELSE IF Exceeds(final_confidence, 60)
    THEN "Moderate confidence forecast (60-80%)"
    ELSE "Low confidence forecast (<60%) - monitor closely"

\* the confidence line put after the forecast lines
WithConfidence_Appended(predictions, confidence_scores) ==
    IF predictions # << >> /\ confidence_scores # << >>
    THEN Append(predictions, ConfidenceLabel(FinalConfidence(confidence_scores)))
    ELSE predictions

\* predictions.insert(0, <confidence line>) when there is anything to rate
WithConfidence(predictions, confidence_scores) ==
    IF predictions # << >> /\ confidence_scores # << >>
    THEN << ConfidenceLabel(FinalConfidence(confidence_scores)) >> \o predictions
    ELSE predictions

ComfortAssessment(temp_f, humidity) ==
    LET pressure == Get(current_data, "pressure_hpa", 0)
    IN  IF /\ 68 <= temp_f /\ temp_f <= 77 /\ 40 <= humidity /\ humidity <= 60
           /\ Truthy(current_data, "pressure_hpa")
           /\ 10130 <= pressure /\ pressure <= 10230
        THEN << "Perfect comfort conditions" >>
        ELSE IF temp_f > 85 /\ humidity > 70
        THEN << "Oppressive conditions - limit outdoor activity" >>
        ELSE IF temp_f < 20
        THEN << "Dangerously cold - limit exposure" >>
        ELSE << >>

\* the fallback without the test of the pressure range
Fallback_AnyPressure ==
    IF Truthy(current_data, "pressure_hpa")
    THEN << "Normal weather conditions - no significant changes expected" >>
    ELSE << "Stable conditions" >>

Fallback ==
    LET pressure == Get(current_data, "pressure_hpa", 0)
    IN  IF Truthy(current_data, "pressure_hpa") /\ 10130 <= pressure /\ pressure <= 10230
        THEN << "Normal weather conditions - no significant changes expected" >>
        ELSE << "Stable conditions" >>

Returned(value) == [raised |-> "none", value |-> value]

Raised(exception) == [raised |-> exception, value |-> << >>]

\* the forecast lines in the reverse of the order the rules ran in
Texts_Reversed(signals) == [i \in 1..Len(signals) |-> signals[Len(signals) + 1 - i].text]

Texts(signals) == [i \in 1..Len(signals) |-> signals[i].text]

\* The forecast rules of predict_weather in the order they run: the lines
\* they append together with the confidence_scores entries they set.
ForecastSignals ==
    LET temp_f == Get(current_data, "temperature_f", 0)
        humidity == Get(current_data, "humidity", 0)
        pressure == Get(current_data, "pressure_hpa", 0)
        dew_point_f == calculate_dew_point(temp_f, humidity)
        pressure_change_rate == PressureChangeRate
        from_pressure ==
            IF "pressure_hpa" \in DOMAIN current_data
            THEN PressureLevelForecast(pressure, pressure_change_rate, humidity)
                 \o PressureRateForecast(pressure_change_rate, humidity)
                 \o ThunderstormForecast(temp_f, humidity, pressure,
                                         pressure_change_rate, dew_point_f)
                 \o WinterForecast(temp_f, humidity, pressure)
            ELSE << >>
    IN  from_pressure
        \o FogForecast(predict_fog)
        \o HeatForecast(temp_f, humidity)
        \o FrostForecast(temp_f, humidity)
        \o FireForecast(temp_f, humidity)

\* predict_weather below its empty-data check
Forecast ==
    LET current_conditions == detect_current_conditions
        observed == IF current_conditions # << >>
                    THEN Append(current_conditions, "---")
                    ELSE << >>
        temp_f == Get(current_data, "temperature_f", 0)
        humidity == Get(current_data, "humidity", 0)
        fog_prediction == predict_fog
        signals == ForecastSignals
        rated == WithConfidence(observed \o Texts(signals), signals)
        predictions == rated \o ComfortAssessment(temp_f, humidity)
    IN  IF fog_prediction.raised # "none"
        THEN Raised(fog_prediction.raised)
        ELSE Returned(IF predictions = << >> THEN Fallback ELSE predictions)

\* predict_weather without the empty-data check
predict_weather_Unchecked == Forecast

predict_weather ==
    IF DOMAIN current_data = {}
    THEN Returned(<< "No current data available" >>)
    ELSE Forecast

\* WeatherDataService.get_current_data() or {}: the last value of every field
\* written during the last 24 hours, stamped with the latest of their times
get_current_data ==
    LET day == SelectSeq(influx, LAMBDA r : /\ r.timestamp >= now.minute - 1440
                                            /\ r.timestamp < now.minute)
        fields == UNION {DOMAIN day[i] \ {"timestamp"} : i \in 1..Len(day)}
        LastWith(f) == CHOOSE i \in 1..Len(day) :
                          /\ f \in DOMAIN day[i]
                          /\ \A j \in (i + 1)..Len(day) : f \notin DOMAIN day[j]
        latest_time == CHOOSE t \in {day[LastWith(f)].timestamp : f \in fields} :
                          \A f \in fields : day[LastWith(f)].timestamp <= t
    IN  IF fields = {} THEN EmptyDict
        ELSE [k \in fields \cup {"timestamp"} |->
                 IF k = "timestamp" THEN latest_time ELSE day[LastWith(k)][k]]

(***************************************************************************)
(* Specification of the prediction engine.  The bucket holds the latest    *)
(* reading (one minute old) and up to MaxOlder earlier readings: the       *)
(* first one 50 minutes old, the others 4 minutes apart inside the last    *)
(* quarter of an hour.  The first earlier reading differs from the latest  *)
(* by a threshold-straddling pressure change; the ones in between wiggle   *)
(* the pressure; all of them may be drier than the latest.  Besides these  *)
(* the bucket may be empty, hold one reading older than a day, or hold     *)
(* readings of the pressure sensor alone (the DHT22 read failed).          *)
(* Temperatures avoid the values where the float dew point at 100 %        *)
(* humidity exceeds the temperature by one ulp.                            *)
(***************************************************************************)
MaxOlder == 3

PredictTemps == {30, 36, 50, 70, 76, 79, 85, 95}

PredictHumidities == {0, 10, 20, 50, 72, 80, 86, 93, 96, 100}

PredictPressures == {9750, 9900, 9970, 10050, 10100, 10120, 10180, 10200, 10250, 10350}

PressureRates == {-31, -30, -21, -16, -11, 0, 11, 21}

HumidityJumps == {0, 16}

PressureWiggles == {0, 25}

Clocks == {[minute |-> 0, hour |-> 3, month |-> 1],
           [minute |-> 0, hour |-> 7, month |-> 7],
           [minute |-> 0, hour |-> 12, month |-> 7],
           [minute |-> 0, hour |-> 18, month |-> 10]}

\* sensor_to_influx writes the fields of the sensors that answered
SensorReading(ts, dht, p) ==
    LET base == [timestamp |-> ts]
        with_dht == IF dht.ok
                    THEN base @@ [temperature_f |-> dht.t, humidity |-> dht.h]
                    ELSE base
    IN  IF p.ok THEN WithPressure(with_dht, p.v) ELSE with_dht

OlderTime(n, i) == IF i = 1 THEN -50 ELSE -1 - 4 * (n - i + 1)

PredictHistory(n, t, h, p, rate, jump, wiggle) ==
    LET Older(i) ==
            SensorReading(OlderTime(n, i),
                          [ok |-> TRUE, t |-> t, h |-> Max(h - jump, 0)],
                          [ok |-> p.ok, v |-> IF i = 1 THEN p.v - rate ELSE p.v + wiggle])
    IN  [i \in 1..n |-> Older(i)]
        \o << SensorReading(-1, [ok |-> TRUE, t |-> t, h |-> h], p) >>

PressureOnlyHistory(n, p, rate) ==
    [i \in 1..n |-> SensorReading(OlderTime(n, i), [ok |-> FALSE],
                                  [ok |-> TRUE, v |-> IF i = 1 THEN p - rate ELSE p])]
    \o << SensorReading(-1, [ok |-> FALSE], [ok |-> TRUE, v |-> p]) >>

InitPredictFull ==
    \E n \in 0..MaxOlder, t \in PredictTemps, h \in PredictHumidities :
      \E p \in {[ok |-> FALSE, v |-> 0]} \cup {[ok |-> TRUE, v |-> v] : v \in PredictPressures} :
        \E rate \in IF n = 0 THEN {0} ELSE PressureRates,
           jump \in IF n = 0 THEN {0} ELSE HumidityJumps,
           wiggle \in IF n < 3 THEN {0} ELSE PressureWiggles :
              influx = PredictHistory(n, t, h, p, rate, jump, wiggle)

InitPredictDegenerate ==
    \/ influx = << >>
    \/ influx = << SensorReading(-2000, [ok |-> TRUE, t |-> 70, h |-> 50],
                                 [ok |-> TRUE, v |-> 10130]) >>
    \/ \E n \in 0..MaxOlder, p \in PredictPressures, rate \in PressureRates :
          influx = PressureOnlyHistory(n, p, rate)

\* WeatherDashboard.__init__ ends with _update_current_data()
InitPredict ==
    /\ now \in Clocks
    /\ InitPredictFull \/ InitPredictDegenerate
    /\ current_data = get_current_data
    /\ all_readings = << >>
    /\ args = << >>
    /\ result = NotCalled
    /\ threads = << >>
    /\ ServicesIdle

PredictWeather == Call("predict_weather", predict_weather)

DetectCurrentConditions ==
    Call("detect_current_conditions", Returned(detect_current_conditions))

PredictFog == Call("predict_fog", predict_fog)

NextPredict == PredictWeather \/ DetectCurrentConditions \/ PredictFog

SpecPredict == InitPredict /\ [][NextPredict]_vars

(***************************************************************************)
(* Claims about the prediction engine                                      *)
(***************************************************************************)
Contains(seq, x) == \E i \in 1..Len(seq) : seq[i] = x

PredictWeatherCalled == result.op = "predict_weather"

\* The worked example: 85 F, 80 %, 990 hPa, one hour earlier 993 hPa
HotHumidFalling ==
    /\ PredictWeatherCalled
    /\ Get(current_data, "temperature_f", 0) = 85
    /\ Get(current_data, "humidity", 0) = 80
    /\ Get(current_data, "pressure_hpa", 0) = 9900
    /\ PressureChangeRate = -30

\* C1: predict_weather called while current_data is empty returns exactly
\* the one-element list ["No current data available"] and does not raise.
C1_EmptyDataSingleLine ==
    (PredictWeatherCalled /\ DOMAIN current_data = {})
        => /\ result.ret.raised = "none"
           /\ result.ret.value = << "No current data available" >>

\* C1 witness: the bucket holds only a reading older than 24 hours, so the
\* dashboard has no current data, and predict_weather has answered.
C1_Witness ==
    /\ PredictWeatherCalled
    /\ influx # << >>
    /\ DOMAIN current_data = {}
    /\ Len(result.ret.value) = 1

\* C2: for every non-empty current reading, humidity 0 or missing included,
\* no exception of a dew-point computation leaves detect_current_conditions,
\* predict_fog or predict_weather.
C2_NoDewPointException ==
    (/\ result.op \in {"predict_weather", "predict_fog", "detect_current_conditions"}
     /\ DOMAIN current_data # {})
        => result.ret.raised = "none"

MaxDewTempF == 176

DewTemps == -40..MaxDewTempF

DewHumidities == 0..100

InitDew ==
    /\ influx = << >>
    /\ now = [minute |-> 0, hour |-> 12, month |-> 7]
    /\ current_data = EmptyDict
    /\ all_readings = << >>
    /\ \E t \in DewTemps, h \in DewHumidities : args = [temp_f |-> t, humidity |-> h]
    /\ result = NotCalled
    /\ threads = << >>
    /\ ServicesIdle

CalculateDewPoint ==
    Call("calculate_dew_point", calculate_dew_point(args.temp_f, args.humidity))

NextDew == CalculateDewPoint

SpecDew == InitDew /\ [][NextDew]_vars

\* C11: at humidity 100 the Magnus dew point equals the air temperature to
\* within 0.5 F, for every input temperature.
C11_SaturatedDewPointIsTemperature ==
    (result.op = "calculate_dew_point" /\ args.humidity = 100)
        => Abs(result.ret - args.temp_f * 1000) <= 500

\* C11 witness: the dew point of a saturated reading at 70 F was computed
\* and came out at 70 F.
C11_Witness ==
    /\ result.op = "calculate_dew_point"
    /\ args = [temp_f |-> 70, humidity |-> 100]
    /\ Abs(result.ret - 70000) <= 500

SummerDaytime ==
    /\ Season(now.month) = "summer"
    /\ TimePeriod(now.hour) \in {"midday", "evening"}

\* C12: in summer (month 6-8) at midday or in the evening (hour 10-23)
\* predict_fog returns None for every reading and every trend.
C12_SummerDaytimeFogSuppressed ==
    (result.op = "predict_fog" /\ SummerDaytime) => result.ret = NoFog

(***************************************************************************)
(* Daily summaries.  A day is 1440 consecutive minutes; a summary is a     *)
(* dict, None is modelled by NoSummary.  A station reading whose           *)
(* pressure_hpa is None is a reading without that key.                     *)
(***************************************************************************)
NoSummary == [is_none |-> TRUE]

DayOf(minute) == minute \div 1440

SetMax(S) == CHOOSE m \in S : \A x \in S : x <= m

SetMin(S) == CHOOSE m \in S : \A x \in S : x >= m

Values(readings, k) == {readings[i][k] : i \in {j \in 1..Len(readings) : k \in DOMAIN readings[j]}}

Last(seq) == seq[Len(seq)]

\* the station summary with the upper pressure limit excluded
st_get_daily_summary_Exclusive ==
    LET today_readings ==
            SelectSeq(all_readings, LAMBDA r : DayOf(r.timestamp) = DayOf(now.minute))
        InRange(r) == /\ "pressure_hpa" \in DOMAIN r
                      /\ 8000 <= r.pressure_hpa /\ r.pressure_hpa < 11000
        with_pressure == SelectSeq(today_readings, InRange)
        summary == [temp_high |-> SetMax(Values(today_readings, "temperature_f")),
                    temp_low |-> SetMin(Values(today_readings, "temperature_f")),
                    humidity_high |-> SetMax(Values(today_readings, "humidity")),
                    humidity_low |-> SetMin(Values(today_readings, "humidity")),
                    readings_count |-> Len(today_readings)]
    IN  IF today_readings = << >> THEN NoSummary
        ELSE IF with_pressure = << >> THEN summary
        ELSE summary @@ [pressure_high |-> SetMax(Values(with_pressure, "pressure_hpa")),
                         pressure_low |-> SetMin(Values(with_pressure, "pressure_hpa")),
                         pressure_current |-> Last(with_pressure).pressure_hpa]

\* WeatherStation.get_daily_summary: pressures kept when 800.0 <= p <= 1100.0
st_get_daily_summary ==
    LET today_readings ==
            SelectSeq(all_readings, LAMBDA r : DayOf(r.timestamp) = DayOf(now.minute))
        InRange(r) == /\ "pressure_hpa" \in DOMAIN r
                      /\ 8000 <= r.pressure_hpa /\ r.pressure_hpa <= 11000
        with_pressure == SelectSeq(today_readings, InRange)
        summary == [temp_high |-> SetMax(Values(today_readings, "temperature_f")),
                    temp_low |-> SetMin(Values(today_readings, "temperature_f")),
                    humidity_high |-> SetMax(Values(today_readings, "humidity")),
                    humidity_low |-> SetMin(Values(today_readings, "humidity")),
                    readings_count |-> Len(today_readings)]
    IN  IF today_readings = << >> THEN NoSummary
        ELSE IF with_pressure = << >> THEN summary
        ELSE summary @@ [pressure_high |-> SetMax(Values(with_pressure, "pressure_hpa")),
                         pressure_low |-> SetMin(Values(with_pressure, "pressure_hpa")),
                         pressure_current |-> Last(with_pressure).pressure_hpa]

\* WeatherDataService.get_daily_summary: every field is summarised over the
\* readings that carry it; no range test is applied to the pressure.
ds_get_daily_summary ==
    LET readings == SelectSeq(influx, LAMBDA r : /\ DayOf(r.timestamp) = DayOf(now.minute)
                                                 /\ Cardinality(DOMAIN r) > 1)
        temps == Values(readings, "temperature_f")
        humidities == Values(readings, "humidity")
        with_pressure == SelectSeq(readings, HasPressure)
        both == SelectSeq(readings, LAMBDA r : {"temperature_f", "humidity"} \subseteq DOMAIN r)
        feels_like_temps ==
            {ds_calculate_feels_like(both[i].temperature_f, both[i].humidity, 0).value :
                i \in 1..Len(both)}
        s0 == [readings_count |-> Len(readings)]
        s1 == IF temps = {} THEN s0
              ELSE s0 @@ [temp_high |-> SetMax(temps), temp_low |-> SetMin(temps)]
        s2 == IF humidities = {} THEN s1
              ELSE s1 @@ [humidity_high |-> SetMax(humidities),
                          humidity_low |-> SetMin(humidities)]
        s3 == IF with_pressure = << >> THEN s2
              ELSE s2 @@ [pressure_high |-> SetMax(Values(with_pressure, "pressure_hpa")),
                          pressure_low |-> SetMin(Values(with_pressure, "pressure_hpa")),
                          pressure_current |-> Last(with_pressure).pressure_hpa]
    IN  IF readings = << >> THEN NoSummary
        ELSE IF feels_like_temps = {} THEN s3
        ELSE s3 @@ [feels_like_high |-> SetMax(feels_like_temps),
                    feels_like_low |-> SetMin(feels_like_temps)]

(***************************************************************************)
(* Specification of the daily summaries.  Up to MaxSummaryReadings         *)
(* readings were taken around noon, each with or without the DHT22 values  *)
(* and with or without a pressure around the limits 800 and 1100 hPa; the  *)
(* first one may date from the day before.  The station keeps the          *)
(* readings whose DHT22 read succeeded, the bucket every reading that has  *)
(* a field.                                                                *)
(***************************************************************************)
MaxSummaryReadings == 3

SummaryPressures == {7990, 8000, 10150, 10180, 11000, 11010}

SummaryChoices ==
    [dht : BOOLEAN, p : {[ok |-> FALSE, v |-> 0]} \cup {[ok |-> TRUE, v |-> v] : v \in SummaryPressures}]

SummaryReadings(choice, yesterday) ==
    LET At(i) == SensorReading(IF i = 1 /\ yesterday THEN -10 ELSE 700 + i,
                               IF choice[i].dht
                               THEN [ok |-> TRUE, t |-> IF i % 2 = 1 THEN 50 ELSE 85,
                                     h |-> IF i % 2 = 1 THEN 40 ELSE 60]
                               ELSE [ok |-> FALSE],
                               choice[i].p)
    IN  [i \in DOMAIN choice |-> At(i)]

InitSummary ==
    /\ now = [minute |-> 720, hour |-> 12, month |-> 7]
    /\ \E n \in 0..MaxSummaryReadings, yesterday \in BOOLEAN :
         \E choice \in [1..n -> SummaryChoices] :
            /\ influx = SelectSeq(SummaryReadings(choice, yesterday),
                                  LAMBDA r : Cardinality(DOMAIN r) > 1)
            /\ all_readings = SelectSeq(SummaryReadings(choice, yesterday),
                                        LAMBDA r : "temperature_f" \in DOMAIN r)
    /\ current_data = EmptyDict
    /\ args = << >>
    /\ result = NotCalled
    /\ threads = << >>
    /\ ServicesIdle

StGetDailySummary == Call("station.get_daily_summary", st_get_daily_summary)

DsGetDailySummary == Call("get_daily_summary", ds_get_daily_summary)

NextSummary == StGetDailySummary \/ DsGetDailySummary

SpecSummary == InitSummary /\ [][NextSummary]_vars

Pressures(readings) == [i \in 1..Len(readings) |-> Get(readings[i], "pressure_hpa", 0)]

\* today's readings of the store the called summary works on
SummaryWindow ==
    IF result.op = "station.get_daily_summary"
    THEN SelectSeq(all_readings, LAMBDA r : DayOf(r.timestamp) = DayOf(now.minute))
    ELSE SelectSeq(influx, LAMBDA r : DayOf(r.timestamp) = DayOf(now.minute))

SummaryCalled == result.op \in {"station.get_daily_summary", "get_daily_summary"}

MaxWrites == 2

MaxPasses == 1

Threads == {"updater", "handler"}

Idle == [pc |-> "idle", passes |-> 0, fetched |-> EmptyDict, enhanced_data |-> EmptyDict,
         detect_from |-> EmptyDict, forecast_from |-> EmptyDict, fog_from |-> EmptyDict]

\* sensor_to_influx: the k-th reading written while the dashboard runs
LoggedReading(k) ==
    SensorReading(now.minute, [ok |-> TRUE, t |-> 70 + 5 * k, h |-> 50 + 10 * k],
                  [ok |-> TRUE, v |-> 10130 - 20 * k])

InitConcurrent ==
    /\ now = [minute |-> 0, hour |-> 12, month |-> 7]
    /\ influx = << SensorReading(-1, [ok |-> TRUE, t |-> 70, h |-> 50],
                                 [ok |-> TRUE, v |-> 10130]) >>
    /\ current_data = get_current_data
    /\ all_readings = << >>
    /\ args = << >>
    /\ result = NotCalled
    /\ threads = [t \in Threads |-> Idle]
    /\ ServicesIdle

Step(t, locals) ==
    /\ threads' = [threads EXCEPT ![t] = locals]
    /\ UNCHANGED << influx, now, all_readings, args >>
    /\ UNCHANGED services

\* the sensor logger writes the next reading, one minute later
WriteReading ==
    /\ Len(influx) < 1 + MaxWrites
    /\ influx' = Append(influx, LoggedReading(Len(influx)))
    /\ now' = [now EXCEPT !.minute = @ + 1]
    /\ UNCHANGED << current_data, all_readings, args, result, threads >>
    /\ UNCHANGED services

\* update_data_periodically calls _update_current_data() and then
\* get_current_reading(); api_current and handle_connect call the latter
StartPass(t) ==
    /\ threads[t].pc = "idle"
    /\ threads[t].passes < MaxPasses
    /\ Step(t, [Idle EXCEPT !.pc = IF t = "updater" THEN "pre_query" ELSE "query",
                            !.passes = threads[t].passes + 1])
    /\ UNCHANGED << current_data, result >>

\* _update_current_data, right-hand side: data_service.get_current_data() or {}
QueryCurrentData(t) ==
    /\ threads[t].pc \in {"pre_query", "query"}
    /\ Step(t, [threads[t] EXCEPT !.fetched = get_current_data,
                                  !.pc = IF @ = "pre_query" THEN "pre_assign" ELSE "assign"])
    /\ UNCHANGED << current_data, result >>

\* _update_current_data, the assignment to self.current_data
AssignCurrentData(t) ==
    /\ threads[t].pc \in {"pre_assign", "assign"}
    /\ current_data' = threads[t].fetched
    /\ Step(t, [threads[t] EXCEPT !.pc = IF @ = "pre_assign" THEN "query" ELSE "copy"])
    /\ UNCHANGED result

\* get_current_reading: `if not self.current_data: return None`, else
\* enhanced_data = self.current_data.copy()
CopyCurrentData(t) ==
    /\ threads[t].pc = "copy"
    /\ IF DOMAIN current_data = {}
       THEN /\ result' = [op |-> "get_current_reading", thread |-> t, ret |-> NoSummary]
            /\ Step(t, [threads[t] EXCEPT !.pc = "idle"])
       ELSE /\ Step(t, [threads[t] EXCEPT !.enhanced_data = current_data, !.pc = "detect"])
            /\ UNCHANGED result
    /\ UNCHANGED current_data

\* predict_weather -> detect_current_conditions reads self.current_data
DetectStage(t) ==
    /\ threads[t].pc = "detect"
    /\ Step(t, [threads[t] EXCEPT !.detect_from = current_data, !.pc = "forecast"])
    /\ UNCHANGED << current_data, result >>

\* predict_weather reads temp_f, humidity and pressure from self.current_data
ForecastStage(t) ==
    /\ threads[t].pc = "forecast"
    /\ Step(t, [threads[t] EXCEPT !.forecast_from = current_data, !.pc = "fog"])
    /\ UNCHANGED << current_data, result >>

\* predict_weather -> predict_fog reads self.current_data
FogStage(t) ==
    /\ threads[t].pc = "fog"
    /\ Step(t, [threads[t] EXCEPT !.fog_from = current_data, !.pc = "store"])
    /\ UNCHANGED << current_data, result >>

\* store_weather_predictions(predictions, self.current_data); return enhanced_data
StoreAndReturn(t) ==
    /\ threads[t].pc = "store"
    /\ result' = [op |-> "get_current_reading", thread |-> t,
                  ret |-> [reading |-> threads[t].enhanced_data,
                           detect_from |-> threads[t].detect_from,
                           forecast_from |-> threads[t].forecast_from,
                           fog_from |-> threads[t].fog_from,
                           stored_with |-> current_data]]
    /\ Step(t, [threads[t] EXCEPT !.pc = "idle"])
    /\ UNCHANGED current_data

NextConcurrent ==
    \/ WriteReading
    \/ \E t \in Threads :
          \/ StartPass(t)
          \/ QueryCurrentData(t)
          \/ AssignCurrentData(t)
          \/ CopyCurrentData(t)
          \/ DetectStage(t)
          \/ ForecastStage(t)
          \/ FogStage(t)
          \/ StoreAndReturn(t)

SpecConcurrent == InitConcurrent /\ [][NextConcurrent]_vars

\* C14: every get_current_reading result is computed from one consistent
\* current reading: the reading copied into the result, the one read by
\* detect_current_conditions, by predict_weather, by predict_fog and the one
\* stored with the predictions are the same, whatever the interleaving.
C14_OneReadingPerPass ==
    (result.op = "get_current_reading" /\ "reading" \in DOMAIN result.ret)
        => /\ result.ret.detect_from = result.ret.reading
           /\ result.ret.forecast_from = result.ret.reading
           /\ result.ret.fog_from = result.ret.reading
           /\ result.ret.stored_with = result.ret.reading

(***************************************************************************)
(* Claims about the lines predict_weather assembles.                       *)
(***************************************************************************)
BandLines ==
    { "Major storm system - severe weather imminent",
      "Rapidly intensifying storm approaching",
      "Low pressure system - rain/storms likely within 6-12 hours",
      "Unsettled weather - scattered showers possible",
      "Cloudy conditions expected",
      "High pressure - clear, stable weather for 24+ hours",
      "Fair weather expected" }

Positions(seq, lines) == {i \in 1..Len(seq) : seq[i] \in lines}

\* predict_weather returned a list for a reading that carries a pressure
ForecastWithPressure ==
    /\ PredictWeatherCalled
    /\ result.ret.raised = "none"
    /\ "pressure_hpa" \in DOMAIN current_data

\* C15 as stated: every list predict_weather returns for a reading with a
\* pressure holds exactly one pressure-band line.
C15_ExactlyOneBand ==
    ForecastWithPressure
        => Cardinality(Positions(result.ret.value, BandLines)) = 1

\* C15, amended: every list predict_weather returns for a reading with a
\* pressure holds at most one pressure-band line: exactly one when the
\* pressure is below 1010 hPa or above 1020 hPa, and none when it lies in
\* 1010..1020 hPa, limits included.
C15_OneBandOutsideNormalRange ==
    ForecastWithPressure
        => Cardinality(Positions(result.ret.value, BandLines))
              = IF current_data.pressure_hpa < 10100 \/ current_data.pressure_hpa > 10200
                THEN 1 ELSE 0

C15_Witness ==
    /\ ForecastWithPressure
    /\ current_data.pressure_hpa = 10200
    /\ Len(result.ret.value) > 1
    /\ Positions(result.ret.value, BandLines) = {}

FallbackLines ==
    { "Normal weather conditions - no significant changes expected",
      "Stable conditions" }

NormalPressure ==
    /\ "pressure_hpa" \in DOMAIN current_data
    /\ 10130 <= current_data.pressure_hpa
    /\ current_data.pressure_hpa <= 10230

\* C16: for a non-empty current reading predict_weather never returns an
\* empty list; a fallback line only ever appears as the sole element of the
\* returned list, and it reads "Normal weather conditions ..." when the
\* pressure lies within 1013..1023 hPa and "Stable conditions" otherwise.
C16_FallbackAloneAndNeverEmpty ==
    (PredictWeatherCalled /\ DOMAIN current_data # {} /\ result.ret.raised = "none")
        => /\ result.ret.value # << >>
           /\ Positions(result.ret.value, FallbackLines) # {}
                 => result.ret.value =
                       IF NormalPressure
                       THEN << "Normal weather conditions - no significant changes expected" >>
                       ELSE << "Stable conditions" >>

C16_Witness ==
    /\ PredictWeatherCalled
    /\ "pressure_hpa" \in DOMAIN current_data
    /\ current_data.pressure_hpa = 10120
    /\ result.ret = Returned(<< "Stable conditions" >>)

BannerLines ==
    { "High confidence forecast (>80%)",
      "Moderate confidence forecast (60-80%)",
      "Low confidence forecast (<60%) - monitor closely" }

DetectionLines ==
    { HEAVY_PRECIPITATION, LIGHT_PRECIPITATION, THUNDERSTORM_LIKELY_NOW,
      THUNDERSTORM_POSSIBLE_DEWPOINT, THUNDERSTORM_POSSIBLE_SPIKE, PRESSURE_VOLATILITY }

ComfortLines ==
    { "Perfect comfort conditions",
      "Oppressive conditions - limit outdoor activity",
      "Dangerously cold - limit exposure" }

LinesOf(signals) == {signals[i].text : i \in 1..Len(signals)}

\* The place of a line in the order the claim gives: banner, detections,
\* separator, then the rules (band, rate, thunderstorm, winter, fog, heat,
\* frost, fire), then comfort.  The rate, fog and heat lines carry numbers
\* and are recognised as the lines those rules give for the current reading.
Rank(line) ==
    LET temp_f == Get(current_data, "temperature_f", 0)
        humidity == Get(current_data, "humidity", 0)
    IN  IF line \in BannerLines THEN 0
        ELSE IF line \in DetectionLines THEN 1
        ELSE IF line = "---" THEN 2
        ELSE IF line \in BandLines THEN 3
        ELSE IF line \in LinesOf(PressureRateForecast(PressureChangeRate, humidity)) THEN 4
        ELSE IF line = "Thunderstorm likely within 2-6 hours (unstable atmosphere)" THEN 5
        ELSE IF line \in { "Snow likely - winter storm conditions developing",
                           "Wintry mix possible (rain/sleet/snow)" } THEN 6
        ELSE IF line \in LinesOf(FogForecast(predict_fog)) THEN 7
        ELSE IF line \in LinesOf(HeatForecast(temp_f, humidity)) THEN 8
        ELSE IF line \in { "Frost/freeze warning tonight",
                           "Patchy frost possible in rural areas" } THEN 9
        ELSE IF line \in { "Critical fire weather - extreme caution advised",
                           "Very dry conditions - elevated fire risk" } THEN 10
        ELSE IF line \in ComfortLines THEN 11
        ELSE 12

\* C17: in every list predict_weather returns for a non-empty reading the
\* order is fixed: the confidence banner, when present, is the first element
\* and occurs once; the detections come next and are followed by the "---"
\* separator; the forecast lines follow in rule order (band, rate,
\* thunderstorm, winter, fog, heat, frost, fire), one per rule; a comfort
\* line, when present, is the last element.
C17_FixedLineOrder ==
    (PredictWeatherCalled /\ DOMAIN current_data # {} /\ result.ret.raised = "none")
        => LET lines == result.ret.value
               rank == [i \in 1..Len(lines) |-> Rank(lines[i])]
           IN  /\ \A i \in 1..Len(lines) : \A j \in (i + 1)..Len(lines) :
                     rank[i] < rank[j] \/ (rank[i] = 1 /\ rank[j] = 1)
               /\ (\E i \in 1..Len(lines) : rank[i] = 1)
                     <=> (\E i \in 1..Len(lines) : rank[i] = 2)
               /\ \A i \in 1..Len(lines) :
                     /\ rank[i] = 0 => i = 1
                     /\ rank[i] = 11 => i = Len(lines)
                     /\ rank[i] = 12 => Len(lines) = 1

\* banner, a detection, the separator, two forecast lines and a comfort line
C17_Witness ==
    /\ PredictWeatherCalled
    /\ result.ret.raised = "none"
    /\ LET lines == result.ret.value
       IN  /\ Len(lines) >= 6
           /\ lines[1] \in BannerLines
           /\ lines[2] \in DetectionLines
           /\ Contains(lines, "---")
           /\ Cardinality({Rank(lines[i]) : i \in 1..Len(lines)} \cap 3..10) >= 2
           /\ lines[Len(lines)] \in ComfortLines

(***************************************************************************)
(* Claims about the corrections of the heat index.                         *)
(***************************************************************************)
HeatIndexCalled == result.op \in {"heat_index", "_heat_index"}

\* ((13-h)/4) * sqrt((17-|T-95|)/17), in millionths of a degree
DryCorrection(temp_f, humidity) ==
    (13 - humidity) * 25 * ISqrt(((17 - Abs(temp_f - 95)) * 100000000) \div 17)

\* ((h-85)/10) * ((87-T)/5), in millionths of a degree
HumidCorrection(temp_f, humidity) == (humidity - 85) * (87 - temp_f) * 20000

\* C18: heat_index (dashboard and data service) returns the Rothfusz value
\* less the dry-air correction whenever humidity < 13 and 80 <= temp_f <= 112,
\* and the Rothfusz value plus the humid correction whenever humidity > 85
\* and 80 <= temp_f <= 87.
C18_CorrectionsApplied ==
    HeatIndexCalled =>
        /\ (args.humidity < 13 /\ 80 <= args.temp_f /\ args.temp_f <= 112)
              => result.ret = Round1(Rothfusz(args.temp_f, args.humidity)
                                     - DryCorrection(args.temp_f, args.humidity))
        /\ (args.humidity > 85 /\ 80 <= args.temp_f /\ args.temp_f <= 87)
              => result.ret = Round1(Rothfusz(args.temp_f, args.humidity)
                                     + HumidCorrection(args.temp_f, args.humidity))

(***************************************************************************)
(* Specification of the confidence aggregation of predict_weather: the     *)
(* bucket holds the latest reading and one reading 50 minutes older whose  *)
(* pressure differs by a threshold-straddling rate; the action runs the    *)
(* forecast rules on it and aggregates the confidence_scores they set.     *)
(***************************************************************************)
InitConfidence ==
    /\ now \in Clocks
    /\ \E t \in PredictTemps, h \in PredictHumidities, rate \in PressureRates :
         \E p \in {[ok |-> FALSE, v |-> 0]} \cup {[ok |-> TRUE, v |-> v] : v \in PredictPressures} :
            influx = PredictHistory(1, t, h, p, rate, 0, 0)
    /\ current_data = get_current_data
    /\ all_readings = << >>
    /\ args = << >>
    /\ result = NotCalled
    /\ threads = << >>
    /\ ServicesIdle

\* predict_weather from its forecast rules to final_confidence
AggregateConfidence ==
    Call("final_confidence",
         IF predict_fog.raised # "none"
         THEN [raised |-> predict_fog.raised, rated |-> FALSE]
         ELSE IF ForecastSignals = << >>
         THEN [raised |-> "none", rated |-> FALSE]
         ELSE [raised |-> "none", rated |-> TRUE,
               confidence_scores |-> ForecastSignals,
               final_confidence |-> FinalConfidence(ForecastSignals),
               banner |-> ConfidenceLabel(FinalConfidence(ForecastSignals))])

NextConfidence == AggregateConfidence

SpecConfidence == InitConfidence /\ [][NextConfidence]_vars

ConfidenceRated == result.op = "final_confidence" /\ result.ret.rated

SevereFired ==
    SelectSeq(result.ret.confidence_scores,
              LAMBDA s : /\ s.key \in {"storm", "thunderstorm", "deteriorating", "storm_clearing"}
                         /\ s.confidence >= 750000)

RoutineFired ==
    SelectSeq(result.ret.confidence_scores,
              LAMBDA s : /\ ~(/\ s.key \in {"storm", "thunderstorm", "deteriorating",
                                            "storm_clearing"}
                              /\ s.confidence >= 750000)
                         /\ s.confidence >= 500000)

\* the product of (100 - confidence) over the signals, confidences in percent
RECURSIVE MissProduct(_)
MissProduct(signals) ==
    IF signals = << >> THEN 1
    ELSE (100 - Head(signals).confidence \div 10000) * MissProduct(Tail(signals))

RECURSIVE ConfidenceSum(_)
ConfidenceSum(signals) ==
    IF signals = << >> THEN 0
    ELSE Head(signals).confidence + ConfidenceSum(Tail(signals))

\* C19: when a signal with a key in {storm, thunderstorm, deteriorating,
\* storm_clearing} and a confidence of at least 75 fired, the final
\* confidence is max(100 * (1 - product of (1 - confidence/100) over those
\* signals), 75), whatever routine signals fired in the same pass.
C19_SevereNoisyOr ==
    (ConfidenceRated /\ SevereFired # << >>)
        => result.ret.final_confidence =
              [num |-> Max(1000000 - (MissProduct(SevereFired) * 10000)
                                         \div (100 ^ (Len(SevereFired) - 1)),
                           750000),
               den |-> 1, ulp |-> 0]

\* two severe signals (85 and 80: 97 %) next to a routine one
C19_Witness ==
    /\ ConfidenceRated
    /\ Len(SevereFired) = 2
    /\ RoutineFired # << >>
    /\ result.ret.final_confidence.num = 970000

\* C20: when no severe signal fired and at least one routine signal
\* (confidence of at least 50) did, the final confidence is the arithmetic
\* mean of the routine confidences: final_confidence * count = their sum.
C20_RoutineArithmeticMean ==
    (ConfidenceRated /\ SevereFired = << >> /\ RoutineFired # << >>)
        => result.ret.final_confidence.num * Len(RoutineFired)
              = ConfidenceSum(RoutineFired) * result.ret.final_confidence.den

\* a fog entry (below 50) sits between the routine entries, so the weight
\* list is longer than the routine list and is truncated
C20_Witness ==
    /\ ConfidenceRated
    /\ SevereFired = << >>
    /\ Len(RoutineFired) >= 2
    /\ Len(result.ret.confidence_scores) > Len(RoutineFired)
    /\ result.ret.final_confidence.num * Len(RoutineFired)
          = ConfidenceSum(RoutineFired) * result.ret.final_confidence.den

(***************************************************************************)
(* Specification of the fog predictor over every season and time of day.   *)
(* The bucket holds the latest reading alone, or with MaxFogOlder earlier  *)
(* readings of the last hour that may be drier (a humidity rise) and may   *)
(* differ in pressure.                                                     *)
(***************************************************************************)
MaxFogOlder == 2

FogClocks == {[minute |-> 0, hour |-> h, month |-> m] : h \in {3, 7, 12, 18}, m \in {1, 4, 7, 10}}

FogTemps == {36, 50, 70, 85}

FogHumidities == {0, 50, 86, 93, 96, 100}

FogPressures == {10120, 10200, 10350}

FogRates == {-16, 0}

InitFog ==
    /\ now \in FogClocks
    /\ \E n \in {0, MaxFogOlder}, t \in FogTemps, h \in FogHumidities :
         \E p \in {[ok |-> FALSE, v |-> 0]} \cup {[ok |-> TRUE, v |-> v] : v \in FogPressures} :
           \E rate \in IF n = 0 THEN {0} ELSE FogRates,
              jump \in IF n = 0 THEN {0} ELSE HumidityJumps :
                 influx = PredictHistory(n, t, h, p, rate, jump, 0)
    /\ current_data = get_current_data
    /\ all_readings = << >>
    /\ args = << >>
    /\ result = NotCalled
    /\ threads = << >>
    /\ ServicesIdle

NextFog == PredictFog \/ AggregateConfidence

SpecFog == InitFog /\ [][NextFog]_vars

FogReturned == result.op = "predict_fog" /\ result.ret.found

\* C21: every fog prediction predict_fog returns carries a probability p
\* with 20 <= p <= 95 (below 20 it returns None), and the confidence stored
\* under the "fog" key by predict_weather is that same p.
C21_FogProbabilityRange ==
    /\ FogReturned
          => /\ 200000 <= result.ret.probability
             /\ result.ret.probability <= 950000
    /\ ConfidenceRated
          => LET fog == SelectSeq(result.ret.confidence_scores, LAMBDA s : s.key = "fog")
             IN  IF predict_fog.found
                 THEN fog = << [text |-> predict_fog.prediction, key |-> "fog",
                                confidence |-> predict_fog.probability] >>
                 ELSE fog = << >>

\* a fog prediction whose probability is not a whole percent, stored as is
C21_Witness ==
    /\ ConfidenceRated
    /\ predict_fog.found
    /\ predict_fog.probability % 10000 # 0
    /\ \E i \in 1..Len(result.ret.confidence_scores) :
          /\ result.ret.confidence_scores[i].key = "fog"
          /\ result.ret.confidence_scores[i].confidence = predict_fog.probability

\* C24: every fog prediction predict_fog returns has a probability below
\* 40, so its label is "Possible" and its message is the label, the rounded
\* probability and the first two conditions, without a guidance suffix.
C24_FogOnlyPossible ==
    FogReturned
        => /\ result.ret.probability < 400000
           /\ result.ret.prediction =
                 "Fog Possible ("
                 \o ToString(RoundHalfEven(result.ret.probability, 10000)) \o "% chance)"
                 \o (IF Len(result.ret.conditions) > 0
                     THEN " - " \o JoinFirstTwo(result.ret.conditions) ELSE "")

\* the largest score: winter morning, saturated air in the fog temperature
\* range, stable high pressure, rising humidity: 105 * 0.30 = 31.5 %
C24_Witness ==
    /\ FogReturned
    /\ Season(now.month) = "winter" /\ TimePeriod(now.hour) = "morning"
    /\ result.ret.probability = 315000

(***************************************************************************)
(* Claims about readings without a pressure value.                         *)
(***************************************************************************)
ForecastWithoutPressure ==
    /\ PredictWeatherCalled
    /\ DOMAIN current_data # {}
    /\ "pressure_hpa" \notin DOMAIN current_data

\* C22: when the current reading has no pressure value, predict_weather
\* does not raise, uses a pressure change rate of 0 and returns none of the
\* pressure-dependent lines (band, rate, thunderstorm, winter, frost,
\* perfect comfort).
C22_NoPressureRulesSkipped ==
    ForecastWithoutPressure
        => /\ result.ret.raised = "none"
           /\ PressureChangeRate = 0
           /\ \A i \in 1..Len(result.ret.value) :
                 /\ Rank(result.ret.value[i]) \notin {3, 4, 5, 6, 9}
                 /\ result.ret.value[i] # "Perfect comfort conditions"

(***************************************************************************)
(* Specification of the precipitation detector.  The bucket holds the      *)
(* latest reading, up to MaxRecent earlier readings of the last ten        *)
(* minutes, each either wet (95 %) or dry (50 %), and possibly a reading   *)
(* 50 minutes old whose pressure gives the one-hour change.                *)
(***************************************************************************)
MaxRecent == 4

DetectTemps == {70, 85}

DetectHumidities == {85, 86, 91, 92, 100}

DetectRates == {-16, -15, -14, 0}

DetectHistory(n, wet, t, h, p, hour_old, rate) ==
    (IF hour_old
     THEN << SensorReading(-50, [ok |-> TRUE, t |-> t, h |-> 50],
                           [ok |-> p.ok, v |-> p.v - rate]) >>
     ELSE << >>)
    \o [i \in 1..n |->
           SensorReading(i - n - 2,
                         [ok |-> TRUE, t |-> t, h |-> IF i \in wet THEN 95 ELSE 50], p)]
    \o << SensorReading(-1, [ok |-> TRUE, t |-> t, h |-> h], p) >>

InitDetect ==
    /\ now = [minute |-> 0, hour |-> 12, month |-> 7]
    /\ \E n \in 0..MaxRecent, t \in DetectTemps, h \in DetectHumidities, hour_old \in BOOLEAN :
         \E wet \in SUBSET (1..n), rate \in IF hour_old THEN DetectRates ELSE {0},
            p \in {[ok |-> FALSE, v |-> 0], [ok |-> TRUE, v |-> 10120]} :
               influx = DetectHistory(n, wet, t, h, p, hour_old, rate)
    /\ current_data = get_current_data
    /\ all_readings = << >>
    /\ args = << >>
    /\ result = NotCalled
    /\ threads = << >>
    /\ ServicesIdle

NextDetect == DetectCurrentConditions

SpecDetect == InitDetect /\ [][NextDetect]_vars

DetectCalled == result.op = "detect_current_conditions"

\* the readings of the last ten minutes and the wet ones among them
LastTenMinutes ==
    SelectSeq(influx, LAMBDA r : r.timestamp >= now.minute - 10 /\ r.timestamp < now.minute)

SustainedHumidity ==
    LET wet == SelectSeq(LastTenMinutes, LAMBDA r : Get(r, "humidity", 0) >= 92)
    IN  Len(LastTenMinutes) >= 3 /\ 10 * Len(wet) >= 7 * Len(LastTenMinutes)

HeavyExpected ==
    /\ Get(current_data, "humidity", 0) >= 92
    /\ (PressureChangeRate <= -15 \/ SustainedHumidity)

\* C23: detect_current_conditions emits the heavy-precipitation line exactly
\* when humidity >= 92 and (the one-hour pressure change is <= -1.5 hPa or at
\* least 70 % of a ten-minute window of at least 3 readings has humidity
\* >= 92); otherwise the light-precipitation line exactly when humidity
\* > 85; never both, and exactly one of them whenever humidity > 85.
C23_OnePrecipitationLine ==
    DetectCalled
        => LET lines == result.ret.value
               humidity == Get(current_data, "humidity", 0)
           IN  /\ Contains(lines, HEAVY_PRECIPITATION) <=> HeavyExpected
               /\ Contains(lines, LIGHT_PRECIPITATION) <=> (~HeavyExpected /\ humidity > 85)
               /\ Cardinality(Positions(lines, {HEAVY_PRECIPITATION, LIGHT_PRECIPITATION}))
                     = IF humidity > 85 THEN 1 ELSE 0

\* humidity exactly 92 and a change of exactly -1.5 hPa, no sustained window
C23_Witness ==
    /\ DetectCalled
    /\ current_data.humidity = 92
    /\ PressureChangeRate = -15
    /\ ~SustainedHumidity
    /\ Contains(result.ret.value, HEAVY_PRECIPITATION)

(***************************************************************************)
(* Claims about the smoothed pressure trend on readings close in time.     *)
(***************************************************************************)
\* the readings get_pressure_trend of the station keeps for hours = 3
Qualifying ==
    SelectSeq(all_readings, LAMBDA r : HasPressure(r) /\ r.timestamp > now.minute - 180)

QualifyingSpan == Qualifying[Len(Qualifying)].timestamp - Qualifying[1].timestamp

\* C25: when all qualifying pressure readings (6 or more) of the station's
\* smoothed pressure trend lie within 30 minutes, both window means cover
\* the same readings: the change is 0 and the label "Stable" whatever the
\* pressures are; and the duration used for the rate is never below 0.1
\* hour (6 minutes), also when the second window centre precedes the first.
C25_ClusteredReadingsAreStable ==
    (result.op = "station.get_pressure_trend" /\ Len(Qualifying) >= 6)
        => /\ result.ret.duration >= 6
           /\ QualifyingSpan <= 30
                 => /\ result.ret.change = 0
                    /\ result.ret.label = "Stable"
                    /\ result.ret.duration = 6

\* six readings spanning exactly 30 minutes, pressures 30 hPa apart
C25_Witness ==
    /\ result.op = "station.get_pressure_trend"
    /\ Len(Qualifying) = 6
    /\ QualifyingSpan = 30
    /\ Qualifying[1].pressure_hpa = 9900
    /\ Qualifying[6].pressure_hpa = 10200
    /\ result.ret.label = "Stable"
    /\ result.ret.change = 0

(***************************************************************************)
(* Specification of the heat rule of predict_weather: the arguments are    *)
(* drawn in the initial state (the logger keeps humidity within 0..100 and *)
(* temperatures up to 80 C = 176 F), the action applies the rule.          *)
(***************************************************************************)
MaxHeatTempF == 176

HeatTemps == 75..MaxHeatTempF

HeatHumidities == 0..100

InitHeat ==
    /\ influx = << >>
    /\ now = [minute |-> 0, hour |-> 12, month |-> 7]
    /\ current_data = EmptyDict
    /\ all_readings = << >>
    /\ \E t \in HeatTemps, h \in HeatHumidities : args = [temp_f |-> t, humidity |-> h]
    /\ result = NotCalled
    /\ threads = << >>
    /\ ServicesIdle

HeatRule ==
    Call("heat_rule", [heat_index |-> RuleHeatIndex(args.temp_f, args.humidity),
                       signals |-> HeatForecast(args.temp_f, args.humidity)])

NextHeat == HeatRule

SpecHeat == InitHeat /\ [][NextHeat]_vars

HeatKeys == {result.ret.signals[i].key : i \in 1..Len(result.ret.signals)}

\* C26: for temp_f > 80 and humidity in 0..100 the heat index of the heat
\* rule never exceeds temp_f, so the heat-advisory line is emitted only when
\* temp_f > 90 and the dangerous-heat line only when temp_f > 105.
C26_RuleHeatIndexAtMostTemp ==
    result.op = "heat_rule"
        => /\ args.temp_f > 80 => result.ret.heat_index <= args.temp_f * 10000
           /\ "heat_advisory" \in HeatKeys => args.temp_f > 90
           /\ "heat_danger" \in HeatKeys => args.temp_f > 105

\* saturated air at 106 F: the index equals the temperature and is dangerous
C26_Witness ==
    /\ result.op = "heat_rule"
    /\ args = [temp_f |-> 106, humidity |-> 100]
    /\ result.ret.heat_index = 1060000
    /\ HeatKeys = {"heat_danger"}

\* C27: whenever a signal with a severe key (storm, thunderstorm,
\* deteriorating, storm_clearing) fired, the banner is "High confidence" or
\* "Moderate confidence"; whenever only signals with a confidence below 50
\* fired (fog alone), the final confidence is the default 50 and the banner
\* is "Low confidence".
C27_BannerBySeverity ==
    ConfidenceRated
        => LET scores == result.ret.confidence_scores
               severe == {i \in 1..Len(scores) :
                             scores[i].key \in {"storm", "thunderstorm", "deteriorating",
                                                "storm_clearing"}}
           IN  /\ severe # {}
                     => result.ret.banner \in {"High confidence forecast (>80%)",
                                               "Moderate confidence forecast (60-80%)"}
               /\ (\A i \in 1..Len(scores) : scores[i].confidence < 500000)
                     => /\ result.ret.final_confidence = [num |-> 500000, den |-> 1, ulp |-> 0]
                        /\ result.ret.banner
                              = "Low confidence forecast (<60%) - monitor closely"

\* the thunderstorm signal alone (80 %): the banner is "Moderate confidence"
C27_Witness ==
    /\ ConfidenceRated
    /\ Len(result.ret.confidence_scores) = 1
    /\ result.ret.confidence_scores[1].key = "thunderstorm"
    /\ result.ret.banner = "Moderate confidence forecast (60-80%)"

(***************************************************************************)
(* Specification of the station's event tagging.  An event is identified   *)
(* by its number in the order of tagging; the list loaded at start-up is   *)
(* the persisted one.  One add_event_tag call runs in three steps: build   *)
(* and append the event (and trim the list), persist, broadcast.  Writing  *)
(* the file and emitting can fail; both failures are caught and printed.   *)
(***************************************************************************)
MAX_EVENTS == 1000

MaxTags == 4

\* weather_events.json as left by earlier runs
LoadedEvents == {0, 2, MAX_EVENTS - 2, MAX_EVENTS}

\* the trimming that keeps the oldest events: self.events[:1000]
KeepFirst(list) ==
    IF Len(list) > MAX_EVENTS THEN SubSeq(list, 1, MAX_EVENTS) ELSE list

\* if len(self.events) > 1000: self.events = self.events[-1000:]
KeepLast(list) ==
    IF Len(list) > MAX_EVENTS
    THEN SubSeq(list, Len(list) - MAX_EVENTS + 1, Len(list))
    ELSE list

InitEvents ==
    /\ influx = << >>
    /\ now = [minute |-> 0, hour |-> 12, month |-> 7]
    /\ current_data = EmptyDict
    /\ all_readings = << >>
    /\ args = << >>
    /\ result = NotCalled
    /\ threads = << >>
    /\ \E n \in LoadedEvents :
          /\ events = [i \in 1..n |-> i]
          /\ events_file = [i \in 1..n |-> i]
    /\ emitted = << >>
    /\ weather_cache = [cached |-> FALSE, data |-> 0, age |-> 0, calls |-> 0]

\* add_event_tag up to the trimming of the list; the clock moves on
AppendEvent ==
    /\ args = << >>
    /\ now.minute < MaxTags
    /\ LET event == IF events = << >> THEN 1 ELSE events[Len(events)] + 1
       IN  /\ events' = KeepLast(Append(events, event))
           /\ args' = [event |-> event, pc |-> "save_events"]
    /\ now' = [now EXCEPT !.minute = @ + 1]
    /\ UNCHANGED << influx, current_data, all_readings, result, threads,
                    events_file, emitted, weather_cache >>

\* save_events: json.dump of the list, or an error that is printed
SaveEvents ==
    /\ args # << >>
    /\ args.pc = "save_events"
    /\ \E written \in BOOLEAN : events_file' = IF written THEN events ELSE events_file
    /\ args' = [args EXCEPT !.pc = "broadcast_update"]
    /\ UNCHANGED << influx, now, current_data, all_readings, result, threads,
                    events, emitted, weather_cache >>

\* broadcast_update(event, "event_tag") and return event
BroadcastEvent ==
    /\ args # << >>
    /\ args.pc = "broadcast_update"
    /\ \E sent \in BOOLEAN :
          emitted' = IF sent
                     THEN Append(emitted, [type |-> "event_tag", data |-> args.event])
                     ELSE emitted
    /\ result' = [op |-> "station.add_event_tag", ret |-> args.event]
    /\ args' = << >>
    /\ UNCHANGED << influx, now, current_data, all_readings, threads,
                    events, events_file, weather_cache >>

NextEvents == AppendEvent \/ SaveEvents \/ BroadcastEvent

SpecEvents == InitEvents /\ [][NextEvents]_vars

\* the list holds consecutive event numbers ending with `last`
ConsecutiveUpTo(list, last) ==
    \A i \in 1..Len(list) : list[i] = last - Len(list) + i

\* C28: after any sequence of add_event_tag calls of the station the
\* in-memory list holds at most 1000 events, they are the most recently
\* added ones in insertion order, and a call has appended its event before
\* it persists and broadcasts it.
C28_LastThousandEvents ==
    /\ Len(events) <= MAX_EVENTS
    /\ (result.op = "station.add_event_tag" /\ args = << >>)
          => ConsecutiveUpTo(events, result.ret)
    /\ args # << >>
          => /\ events # << >>
             /\ ConsecutiveUpTo(events, args.event)
    /\ events_file # << >>
          => /\ events # << >>
             /\ events_file[Len(events_file)] <= events[Len(events)]
    /\ \A j \in 1..Len(emitted) :
          /\ emitted[j].type = "event_tag"
          /\ events # << >>
          /\ emitted[j].data <= events[Len(events)]

\* 1000 loaded events and two tagged ones: the two oldest are gone
C28_Witness ==
    /\ result.op = "station.add_event_tag"
    /\ args = << >>
    /\ result.ret = MAX_EVENTS + 2
    /\ Len(events) = MAX_EVENTS
    /\ events[1] = 3
    /\ events[MAX_EVENTS] = MAX_EVENTS + 2

(***************************************************************************)
(* Specification of the official-weather cache.  weather_cache holds       *)
(* whether _cached_data is set, which fetch it came from, the seconds      *)
(* since last_fetch (kept up to one second past the cache duration) and    *)
(* the number of calls made.  A fetch either fails (no response, or a      *)
(* status other than 200), or returns a body that is processed, or         *)
(* returns a body whose processing raises (no "current" entry).            *)
(***************************************************************************)
CACHE_DURATION == 300

MaxCalls == 3

Responses == {"failed", "processed", "malformed"}

Waits == {CACHE_DURATION - 1, CACHE_DURATION}

NoWeather == [is_none |-> TRUE]

Weather(data) == [is_none |-> FALSE, data |-> data]

InitWeather ==
    /\ influx = << >>
    /\ now = [minute |-> 0, hour |-> 12, month |-> 7]
    /\ current_data = EmptyDict
    /\ all_readings = << >>
    /\ args = << >>
    /\ result = NotCalled
    /\ threads = << >>
    /\ ServicesIdle

\* time passes between two calls
Wait ==
    /\ \E seconds \in Waits :
          weather_cache' = [weather_cache EXCEPT
                               !.age = Min(@ + seconds, CACHE_DURATION + 1)]
    /\ weather_cache' # weather_cache
    /\ UNCHANGED << influx, now, current_data, all_readings, args, result, threads,
                    events, events_file, emitted >>

\* get_official_weather(force_refresh); last_fetch is None until the first
\* processed fetch
GetOfficialWeather ==
    /\ weather_cache.calls < MaxCalls
    /\ \E force_refresh \in BOOLEAN, response \in Responses :
         LET fresh == /\ ~force_refresh
                      /\ weather_cache.cached
                      /\ weather_cache.age < CACHE_DURATION
             calls == weather_cache.calls + 1
             outcome == [op |-> "get_official_weather", force_refresh |-> force_refresh,
                         before |-> weather_cache]
         IN  IF fresh
             THEN /\ result' = outcome @@ [fetched |-> "no",
                                           ret |-> Weather(weather_cache.data)]
                  /\ weather_cache' = [weather_cache EXCEPT !.calls = calls]
             ELSE IF response = "failed"
             THEN /\ result' = outcome @@ [fetched |-> response,
                                           ret |-> IF weather_cache.cached
                                                   THEN Weather(weather_cache.data)
                                                   ELSE NoWeather]
                  /\ weather_cache' = [weather_cache EXCEPT !.calls = calls]
             ELSE IF response = "processed"
             THEN /\ result' = outcome @@ [fetched |-> response, ret |-> Weather(calls)]
                  /\ weather_cache' = [cached |-> TRUE, data |-> calls, age |-> 0,
                                       calls |-> calls]
             ELSE /\ result' = outcome @@ [fetched |-> response, ret |-> NoWeather]
                  /\ weather_cache' = [weather_cache EXCEPT !.calls = calls]
    /\ UNCHANGED << influx, now, current_data, all_readings, args, threads,
                    events, events_file, emitted >>

NextWeather == Wait \/ GetOfficialWeather

SpecWeather == InitWeather /\ [][NextWeather]_vars

\* C29: once a processed result is cached, every later get_official_weather
\* call returns weather data, never None: within 300 seconds of the last
\* processed fetch and without force_refresh the cached result, without
\* fetching; and the previously cached result when the refresh fails.
C29_CachedNeverNone ==
    (result.op = "get_official_weather" /\ result.before.cached)
        => /\ ~result.ret.is_none
           /\ (~result.force_refresh /\ result.before.age < CACHE_DURATION)
                 => /\ result.fetched = "no"
                    /\ result.ret = Weather(result.before.data)
           /\ result.fetched \in {"failed", "malformed"}
                 => result.ret = Weather(result.before.data)

(***************************************************************************)
(* Specification of WeatherDashboard.add_event_tag, one action per step of *)
(* the call.  events holds the calls whose event the data service stored,  *)
(* emitted the messages socketio.emit delivered (an emit that raises is    *)
(* caught by broadcast_update and delivers nothing), args the position of  *)
(* the running call and the number of calls started.                       *)
(***************************************************************************)
MaxTagCalls == 2

TagHumidities == {0, 50}

TagCalls == 1..MaxTagCalls

InitTag ==
    /\ now = [minute |-> 0, hour |-> 12, month |-> 7]
    /\ \/ influx = << >>
       \/ \E h \in TagHumidities :
             influx = PredictHistory(0, 70, h, [ok |-> TRUE, v |-> 10200], 0, 0, 0)
    /\ current_data = get_current_data
    /\ all_readings = << >>
    /\ args = [pc |-> "idle", calls |-> 0]
    /\ result = NotCalled
    /\ threads = << >>
    /\ ServicesIdle

\* where add_event_tag goes after store_weather_event, whatever it reported
AfterStore_Ignored(success) == "predict"

\* where add_event_tag goes after store_weather_event
AfterStore(success) == IF success THEN "predict" ELSE "raise"

\* broadcast_update(data, message_type): the log of delivered messages
broadcast_update(socketio, delivered, message_type, data) ==
    IF socketio /\ delivered
    THEN Append(emitted, [type |-> message_type, data |-> data])
    ELSE emitted

\* _update_current_data and store_weather_event, and the raise when the
\* store reports failure
StoreWeatherEvent ==
    /\ args.pc = "idle"
    /\ args.calls < MaxTagCalls
    /\ current_data' = get_current_data
    /\ \E success \in BOOLEAN, socketio \in BOOLEAN :
         LET call == args.calls + 1
         IN  /\ events' = IF success THEN Append(events, call) ELSE events
             /\ IF AfterStore(success) = "predict"
                THEN /\ args' = [pc |-> "predict", calls |-> call, socketio |-> socketio]
                     /\ result' = result
                ELSE /\ args' = [pc |-> "idle", calls |-> call]
                     /\ result' = [op |-> "add_event_tag", call |-> call,
                                   ret |-> Raised("Exception"),
                                   events_update |-> "not reached"]
    /\ UNCHANGED << influx, now, all_readings, threads, events_file, emitted, weather_cache >>

\* the event object with its predictions; predict_weather may raise
BuildEvent ==
    /\ args.pc = "predict"
    /\ \E predictions \in {IF DOMAIN current_data # {}
                            THEN predict_weather
                            ELSE Returned(<< >>)} :
           IF predictions.raised # "none"
           THEN /\ args' = [pc |-> "idle", calls |-> args.calls]
                /\ result' = [op |-> "add_event_tag", call |-> args.calls,
                              ret |-> Raised(predictions.raised),
                              events_update |-> "not reached"]
           ELSE /\ args' = [args EXCEPT !.pc = "event_tag"] @@
                           [event |-> [event |-> args.calls,
                                       conditions |-> current_data,
                                       predictions |-> predictions.value]]
                /\ result' = result
    /\ UNCHANGED << influx, now, current_data, all_readings, threads, services >>

\* broadcast_update(event, "event_tag")
BroadcastEventTag ==
    /\ args.pc = "event_tag"
    /\ \E delivered \in BOOLEAN :
          emitted' = broadcast_update(args.socketio, delivered, "event_tag", args.calls)
    /\ args' = [args EXCEPT !.pc = "events_update"]
    /\ UNCHANGED << influx, now, current_data, all_readings, result, threads,
                    events, events_file, weather_cache >>

\* get_recent_events(20), broadcast_update(..., "events_update"), return event
BroadcastEventsUpdate ==
    /\ args.pc = "events_update"
    /\ \E delivered \in BOOLEAN :
          /\ emitted' = broadcast_update(args.socketio, delivered, "events_update", args.calls)
          /\ result' = [op |-> "add_event_tag", call |-> args.calls,
                        ret |-> Returned(args.event),
                        events_update |-> IF ~args.socketio THEN "no socketio"
                                          ELSE IF delivered THEN "delivered"
                                          ELSE "emit raised"]
    /\ args' = [pc |-> "idle", calls |-> args.calls]
    /\ UNCHANGED << influx, now, current_data, all_readings, threads,
                    events, events_file, weather_cache >>

NextTag == StoreWeatherEvent \/ BuildEvent \/ BroadcastEventTag \/ BroadcastEventsUpdate

SpecTag == InitTag /\ [][NextTag]_vars

\* a call that has started runs to its return or raise
FairSpecTag == SpecTag /\ WF_vars(NextTag)

Delivered(message_type, call) ==
    \E i \in 1..Len(emitted) : emitted[i] = [type |-> message_type, data |-> call]

Stored(call) == \E i \in 1..Len(events) : events[i] = call

TagCallEnded(call) == result.op = "add_event_tag" /\ result.call = call

\* the running call has delivered its "event_tag" message and not yet returned
TagDelivered(call) ==
    /\ args.pc = "events_update"
    /\ args.calls = call
    /\ Delivered("event_tag", call)

\* an "event_tag" message is delivered only for a stored event, and a call
\* whose store failed raises with nothing delivered
TagOnlyAfterStore ==
    \A call \in TagCalls :
       /\ Delivered("event_tag", call) => Stored(call)
       /\ (TagCallEnded(call) /\ ~Stored(call))
             => /\ result.ret.raised = "Exception"
                /\ ~Delivered("event_tag", call)
                /\ ~Delivered("events_update", call)

====
